---- MODULE Spec2Model ----
(***************************************************************************)
(* A model of the introline back office: the container, booking and        *)
(* packing-list controllers together with the schema hooks and unique      *)
(* indexes of the document store they write to.                            *)
(*                                                                         *)
(* Strings are sequences of one-character strings, so that slicing,        *)
(* padding, upper-casing and parsing are computed as the code computes     *)
(* them.  A request body is a function whose domain is the set of keys the *)
(* body carries: a key outside the domain is `undefined' in the handler.   *)
(***************************************************************************)
EXTENDS Integers, Sequences, FiniteSets

VARIABLES
    containers,   \* the Container collection: a set of documents
    nextCid,      \* the next container id (ids grow in creation order)
    today,        \* the server's local calendar day, in days since 1970-01-01
    creq,         \* createContainer requests: slot -> position and locals
    cresp,        \* the last completed container request and its response
    bookings,     \* the Booking collection: a set of documents
    nextBid,      \* the next booking id
    breq,         \* createBooking requests: slot -> position and locals
    bresp,        \* the last completed booking request and its response
    packingLists, \* the PackingList collection: a set of documents
    bundles,      \* the Bundle collection: a set of documents
    nextPid,      \* the next packing-list id
    nextBundleId, \* the next bundle id
    preq,         \* createPackingList requests: slot -> position and locals
    presp,        \* the last completed packing-list request and its response
    ureq,         \* bundle requests: slot -> position and locals
    uresp,        \* the last completed bundle request and its response
    deliveryPartners, \* the DeliveryPartner collection: a set of documents
    nextDpId,     \* the next delivery-partner id
    priceListings, \* the PriceListing collection: a set of documents
    nextPlId,     \* the next price-listing id
    lresp,        \* the last price-listing or delivery-partner response
    reminders,    \* the Reminder collection: a set of documents
    nextRid,      \* the next reminder id
    sends,        \* reminder id -> the numbers sendReminderMessage was called with
    rresp,        \* the last completed reminder request and its response
    storedCustomers, \* the Customer collection as the customer handlers write it
    nextCustId,   \* the next customer id
    xresp,        \* the last completed customer request and its response
    pickupAssigns, \* the PickupAssign collection: a set of documents
    nextPaId,     \* the next pickup-assignment id
    aresp         \* the last completed pickup-assignment request and its response

containerVars == <<containers, nextCid, today, creq, cresp>>
bookingVars == <<bookings, nextBid, breq, bresp>>
packingVars == <<packingLists, bundles, nextPid, nextBundleId, preq, presp>>
bundleVars == <<ureq, uresp>>
priceVars == <<deliveryPartners, nextDpId, priceListings, nextPlId, lresp>>
reminderVars == <<reminders, nextRid, sends, rresp>>
customerVars == <<storedCustomers, nextCustId, xresp>>
pickupVars == <<pickupAssigns, nextPaId, aresp>>
vars ==
    <<containerVars, bookingVars, packingVars, bundleVars, priceVars,
      reminderVars, customerVars, pickupVars>>

\* what the handlers of one controller leave alone
exceptContainerVars ==
    <<bookingVars, packingVars, bundleVars, priceVars, reminderVars,
      customerVars, pickupVars>>
exceptBookingVars ==
    <<containerVars, packingVars, bundleVars, priceVars, reminderVars,
      customerVars, pickupVars>>
exceptPackingVars ==
    <<containerVars, bookingVars, bundleVars, priceVars, reminderVars,
      customerVars, pickupVars>>
exceptBundleVars == <<containerVars, bookingVars, priceVars, reminderVars,
      customerVars, pickupVars>>
exceptPriceVars ==
    <<containerVars, bookingVars, packingVars, bundleVars, reminderVars,
      customerVars, pickupVars>>
exceptReminderVars ==
    <<containerVars, bookingVars, packingVars, bundleVars, priceVars,
      customerVars, pickupVars>>

exceptCustomerVars ==
    <<containerVars, bookingVars, packingVars, bundleVars, priceVars,
      reminderVars, pickupVars>>
exceptPickupVars ==
    <<containerVars, bookingVars, packingVars, bundleVars, priceVars,
      reminderVars, customerVars>>

-----------------------------------------------------------------------------
(* Request bodies *)

EmptyBody == [k \in {} |-> 0]
Has(body, k) == k \in DOMAIN body
Get(body, k, default) == IF Has(body, k) THEN body[k] ELSE default
Put(body, k, v) == [x \in DOMAIN body \cup {k} |-> IF x = k THEN v ELSE body[x]]
Remove(body, k) == [x \in DOMAIN body \ {k} |-> body[x]]
\* Object.assign(doc, updates) / $set: the keys of u overwrite those of doc
Assign(doc, u) == [f \in DOMAIN doc |-> IF f \in DOMAIN u THEN u[f] ELSE doc[f]]

-----------------------------------------------------------------------------
(* Strings *)

DigitChars == <<"0", "1", "2", "3", "4", "5", "6", "7", "8", "9">>
LowerChars == <<"a", "b", "c", "d", "e", "f", "g", "h", "i", "j", "k", "l", "m",
                "n", "o", "p", "q", "r", "s", "t", "u", "v", "w", "x", "y", "z">>
UpperChars == <<"A", "B", "C", "D", "E", "F", "G", "H", "I", "J", "K", "L", "M",
                "N", "O", "P", "Q", "R", "S", "T", "U", "V", "W", "X", "Y", "Z">>

IsDigit(ch) == \E i \in DOMAIN DigitChars : DigitChars[i] = ch
IsLower(ch) == \E i \in DOMAIN LowerChars : LowerChars[i] = ch
IsUpper(ch) == \E i \in DOMAIN UpperChars : UpperChars[i] = ch
DigitVal(ch) == (CHOOSE i \in DOMAIN DigitChars : DigitChars[i] = ch) - 1

\* Number.prototype.toString() of a non-negative integer
RECURSIVE ToString(_)
ToString(n) ==
    IF n < 10 THEN <<DigitChars[n + 1]>>
    ELSE ToString(n \div 10) \o <<DigitChars[(n % 10) + 1]>>

\* String.prototype.padStart(width, ch)
RECURSIVE PadStart(_, _, _)
PadStart(s, width, ch) ==
    IF Len(s) >= width THEN s ELSE PadStart(<<ch>> \o s, width, ch)

\* String.prototype.slice(-n)
SliceLast(s, n) == IF Len(s) <= n THEN s ELSE SubSeq(s, Len(s) - n + 1, Len(s))

\* String.prototype.substring(0, n)
Substring0(s, n) == IF Len(s) <= n THEN s ELSE SubSeq(s, 1, n)

StartsWith(s, prefix) ==
    Len(s) >= Len(prefix) /\ SubSeq(s, 1, Len(prefix)) = prefix

\* parseInt of a string: the value of its leading digits, NaN without any
NaN == "NaN"
RECURSIVE ParseDigits(_, _)
ParseDigits(s, acc) ==
    IF s = <<>> \/ ~IsDigit(Head(s)) THEN acc
    ELSE ParseDigits(Tail(s), acc * 10 + DigitVal(Head(s)))
ParseInt(s) == IF s = <<>> \/ ~IsDigit(Head(s)) THEN NaN ELSE ParseDigits(s, 0)

-----------------------------------------------------------------------------
(* Calendar: the civil date of a day number, as Date's getters compute it *)

CivilFromDays(days) ==
    LET z == days + 719468
        era == z \div 146097
        doe == z - era * 146097
        yoe == (doe - doe \div 1460 + doe \div 36524 - doe \div 146096) \div 365
        doy == doe - (365 * yoe + yoe \div 4 - yoe \div 100)
        mp == (5 * doy + 2) \div 153
        d == doy - (153 * mp + 2) \div 5 + 1
        m == IF mp < 10 THEN mp + 3 ELSE mp - 9
        y == yoe + era * 400 + (IF m <= 2 THEN 1 ELSE 0)
    IN  [year |-> y, month |-> m, date |-> d]

-----------------------------------------------------------------------------
(* Containers: bounds and inputs *)

FirstDay == 20786          \* 2026-11-29, the first day modelled
NumDays == 2               \* the days that may pass after FirstDay
MaxContainerId == 2        \* createContainer requests that reach the store

CSlots == {"c1"}
Charges == {0, 1000}
Advances == {0, 300, 500}
ContainerIds == 1 .. MaxContainerId

\* bodies of POST /containers that pass the route's validators
CreateContainerBodies ==
    [bookingCharge : Charges]
    \cup [bookingCharge : Charges, advancePayment : Advances]
    \cup [bookingCharge : {1000}, advancePayment : {300}, status : {"confirmed"}]

\* the one body used where only the generated code matters
CodeScenarioBodies == [bookingCharge : {1000}, advancePayment : {300}]

\* bodies of PUT /containers/:id that pass the route's validators
UpdateContainerBodies ==
    [bookingCharge : Charges]
    \cup [advancePayment : Advances]
    \cup [bookingCharge : Charges, advancePayment : Advances]
    \cup [status : {"confirmed"}]
    \cup [balanceAmount : {700}]
    \cup [containerCode : {<<"X">>}, status : {"confirmed"}]
    \cup [containerCode : {<<"X">>}, advancePayment : {500}]

ContainerById(id) == {c \in containers : c.id = id}
TheContainer(id) == CHOOSE c \in containers : c.id = id

IdleCreq == [pc |-> "idle", body |-> EmptyBody, containerCode |-> <<>>,
             attempts |-> 0]
NoCresp == [op |-> "none", id |-> 0, body |-> EmptyBody, status |-> 0,
            attempts |-> 0]

CInFlight(r) == creq[r].pc = "save"
NoContainerRequestInFlight == \A r \in CSlots : ~CInFlight(r)

-----------------------------------------------------------------------------
(* Containers: code generation *)

\* 'CNT' + 2-digit year + 2-digit month of the server's day
ContainerPrefix(day) ==
    LET civil == CivilFromDays(day)
        year == SliceLast(ToString(civil.year), 2)
        month == PadStart(ToString(civil.month), 2, "0")
    IN  <<"C", "N", "T">> \o year \o month

\* Container.findOne({createdAt: {$gte: startOfDay, $lt: endOfDay}})
\*          .sort({createdAt: -1})
LastContainerOfDay(stored, day) ==
    LET ofDay == {c \in stored : c.createdDay = day}
    IN  IF ofDay = {} THEN {}
        ELSE {CHOOSE c \in ofDay : \A d \in ofDay : d.id <= c.id}

GenerateContainerCode(stored, day) ==
    LET last == LastContainerOfDay(stored, day)
        sequence ==
            IF last # {} /\ (CHOOSE c \in last : TRUE).containerCode # <<>>
            THEN ParseInt(SliceLast((CHOOSE c \in last : TRUE).containerCode, 4)) + 1
            ELSE 1
    IN  ContainerPrefix(day) \o PadStart(ToString(sequence), 4, "0")

-----------------------------------------------------------------------------
(* Containers: schema *)

\* min: 0 on bookingCharge, advancePayment and balanceAmount
ContainerNumbersValid(doc) ==
    \A f \in {"bookingCharge", "advancePayment", "balanceAmount"} :
        Has(doc, f) => doc[f] >= 0

\* containerSchema.pre('save')
ContainerPreSave(doc) ==
    [doc EXCEPT !.balanceAmount = doc.bookingCharge - doc.advancePayment]

\* containerSchema.pre('findOneAndUpdate')
ContainerPreFindOneAndUpdate(update) ==
    IF Has(update, "bookingCharge") \/ Has(update, "advancePayment")
    THEN LET bookingCharge == Get(update, "bookingCharge", 0)
             advancePayment == Get(update, "advancePayment", 0)
         IN  Put(update, "balanceAmount", bookingCharge - advancePayment)
    ELSE update

\* the unique index on containerCode
ContainerCodeTaken(stored, code) == \E c \in stored : c.containerCode = code

-----------------------------------------------------------------------------
(* Containers: the handlers *)

\* createContainer up to the await of container.save()
StartCreateContainer(r, body) ==
    /\ creq[r].pc = "idle"
    /\ nextCid <= MaxContainerId
    /\ creq' = [creq EXCEPT ![r] =
                   [pc |-> "save", body |-> body,
                    containerCode |-> GenerateContainerCode(containers, today),
                    attempts |-> creq[r].attempts + 1]]
    /\ UNCHANGED <<containers, nextCid, today, cresp>>
    /\ UNCHANGED exceptContainerVars

\* container.save() and the response of createContainer
SaveContainer(r) ==
    /\ creq[r].pc = "save"
    /\ LET body == creq[r].body
           bookingCharge == body.bookingCharge
           advancePayment == Get(body, "advancePayment", 0)
           doc == [id |-> nextCid,
                   containerCode |-> creq[r].containerCode,
                   bookingCharge |-> bookingCharge,
                   advancePayment |-> advancePayment,
                   balanceAmount |-> bookingCharge - advancePayment,
                   status |-> Get(body, "status", "pending"),
                   createdDay |-> today]
           finish(status, id) ==
               /\ creq' = [creq EXCEPT ![r] = IdleCreq]
               /\ cresp' = [op |-> "create", id |-> id, body |-> body,
                            status |-> status, attempts |-> creq[r].attempts]
       IN  IF ~ContainerNumbersValid(doc)
           THEN finish(500, 0) /\ UNCHANGED <<containers, nextCid>>
           ELSE IF ContainerCodeTaken(containers, doc.containerCode)
           THEN finish(400, 0) /\ UNCHANGED <<containers, nextCid>>
           ELSE /\ containers' = containers \cup {ContainerPreSave(doc)}
                /\ nextCid' = nextCid + 1
                /\ finish(201, doc.id)
    /\ UNCHANGED today
    /\ UNCHANGED exceptContainerVars

\* the balance updateContainer puts into the update
ControllerBalance(updateData, current) ==
    LET bookingCharge == Get(updateData, "bookingCharge", current.bookingCharge)
        advancePayment == Get(updateData, "advancePayment", current.advancePayment)
    IN  Put(updateData, "balanceAmount", bookingCharge - advancePayment)

UpdateContainer(id, body) ==
    /\ LET updateData == Remove(body, "containerCode")
           touched == Has(updateData, "bookingCharge")
                          \/ Has(updateData, "advancePayment")
           respond(status) ==
               cresp' = [op |-> "update", id |-> id, body |-> body,
                         status |-> status, attempts |-> 0]
       IN  IF ContainerById(id) = {}
           THEN respond(404) /\ UNCHANGED containers
           ELSE LET current == TheContainer(id)
                    withBalance == IF touched
                                   THEN ControllerBalance(updateData, current)
                                   ELSE updateData
                    update == ContainerPreFindOneAndUpdate(withBalance)
                IN  IF ~ContainerNumbersValid(update)
                    THEN respond(500) /\ UNCHANGED containers
                    ELSE /\ containers' =
                               (containers \ {current}) \cup {Assign(current, update)}
                         /\ respond(200)
    /\ UNCHANGED <<nextCid, today, creq>>
    /\ UNCHANGED exceptContainerVars

DeleteContainer(id) ==
    /\ IF ContainerById(id) = {}
       THEN /\ cresp' = [op |-> "delete", id |-> id, body |-> EmptyBody,
                         status |-> 404, attempts |-> 0]
            /\ UNCHANGED containers
       ELSE /\ containers' = containers \ ContainerById(id)
            /\ cresp' = [op |-> "delete", id |-> id, body |-> EmptyBody,
                         status |-> 200, attempts |-> 0]
    /\ UNCHANGED <<nextCid, today, creq>>
    /\ UNCHANGED exceptContainerVars

\* midnight passes on the server
NextDay ==
    /\ today < FirstDay + NumDays
    /\ today' = today + 1
    /\ UNCHANGED <<containers, nextCid, creq, cresp>>
    /\ UNCHANGED exceptContainerVars

NoContainers ==
    /\ containers = {}
    /\ nextCid = 1
    /\ today = FirstDay
    /\ creq = [r \in CSlots |-> IdleCreq]
    /\ cresp = NoCresp

-----------------------------------------------------------------------------
(* Bookings: the customers and pickup partners the handlers look up *)

Customers ==
    [cA |-> [name |-> <<"A", "c", "m", "e", " ", "T", "r", "a", "d", "e", "r", "s">>,
             customerType |-> "Sender", branches |-> {},
             whatsappNumber |-> "+91 1"],
     cB |-> [name |-> <<"G", "l", "o", "b", "a", "l", " ", "I", "m", "p", "o", "r", "t", "s">>,
             customerType |-> "Receiver", branches |-> {"Main"},
             whatsappNumber |-> "+91 2"],
     cC |-> [name |-> <<"x", "-", "9", " ", "&", " ", "c", "o">>,
             customerType |-> "Receiver", branches |-> {},
             whatsappNumber |-> ""]]
PickupPartners == {"pp1"}

\* Customer.findById / PickupPartner.findById
CustomerExists(id) == id \in DOMAIN Customers
PickupPartnerExists(id) == id \in PickupPartners

-----------------------------------------------------------------------------
(* Bookings: bounds and inputs *)

MaxSequence == 999         \* the probes of generateBookingCode
MaxBookingId == 2          \* createBooking requests that reach the store (unseeded)
ProbeBlock == 32           \* passes of the probing loop evaluated per block
MaxSeededInserts == 2      \* inserts tried on top of a seeded store

BSlots == {"b1", "b2"}
SerialSlots == {"b1"}      \* the slot used where requests are served one at a time

\* a Date: the UTC day (days since 1970-01-01) and the time within the day
Jan10 == [day |-> 19732, tod |-> 0]
Jan10Noon == [day |-> 19732, tod |-> 1]
Jan20 == [day |-> 19742, tod |-> 0]
BookingDates == {Jan10, Jan10Noon, Jan20}
DateLE(a, b) == a.day < b.day \/ (a.day = b.day /\ a.tod <= b.tod)

\* Date.now(): the milliseconds as high * 10^6 + low
Clock == {[high |-> 1762185, low |-> 4567], [high |-> 1762186, low |-> 4567],
          [high |-> 1762186, low |-> 123456]}

BaseBooking ==
    [sender |-> "cA", receiver |-> "cB", pickupPartner |-> "Self",
     date |-> Jan10, expectedReceivingDate |-> Jan20, bundleCount |-> 5]

\* req.body of POST /bookings as createBooking receives it
CreateBookingBodies ==
    {[BaseBooking EXCEPT !.sender = s, !.receiver = r] :
        s \in {"cA", "cB", "cZ"}, r \in {"cB", "cC", "cA", "cZ"}}
    \cup {[BaseBooking EXCEPT !.date = d, !.expectedReceivingDate = e] :
             d \in BookingDates, e \in BookingDates}
    \cup {[BaseBooking EXCEPT !.pickupPartner = p] : p \in {"Central", "pp1", "pp9"}}
    \cup {[BaseBooking EXCEPT !.bundleCount = n] : n \in {-1, 0, 1}}
    \cup {Put(BaseBooking, "status", "success")}
    \cup {Put(BaseBooking, "receiverBranch", b) : b \in {"Main", "Annex"}}

\* the bodies used where requests overlap or the store is seeded
ScenarioBookingBodies == {BaseBooking}

\* req.body of PUT /bookings/:id as updateBooking receives it
UpdateBookingDateBodies ==
    [date : BookingDates]
    \cup [expectedReceivingDate : BookingDates]
    \cup [date : BookingDates, expectedReceivingDate : BookingDates]

UpdateBookingBodies ==
    UpdateBookingDateBodies
    \cup [status : {"success"}]
    \cup [sender : {"cB", "cZ"}]
    \cup [receiver : {"cC", "cA"}]
    \cup [pickupPartner : {"pp1", "pp9"}]
    \cup [bundleCount : {1}]
    \cup [bookingCode : {<<"X">>}, bundleCount : {7}]
    \cup [receiverBranch : {"Annex"}]
    \cup [receiver : {"cB"}, receiverBranch : {"Annex"}]

BookingIds == 1 .. MaxBookingId

\* the bound on the requests that reach the store: MaxBookingId on a store
\* that started empty, MaxSeededInserts on one that started seeded
BookingRoom ==
    \/ nextBid <= MaxBookingId
    \/ nextBid > MaxSequence /\ nextBid <= MaxSequence + MaxSeededInserts

BookingById(id) == {b \in bookings : b.id = id}
TheBooking(id) == CHOOSE b \in bookings : b.id = id

IdleBreq == [pc |-> "idle", body |-> EmptyBody, sequence |-> 0,
             bookingCode |-> <<>>, fallback |-> FALSE]
NoBresp == [op |-> "none", id |-> 0, status |-> 0, message |-> ""]

BInFlight(r) == breq[r].pc \in {"probe", "insert"}
NoBookingRequestInFlight == \A r \in BSlots : ~BInFlight(r)

-----------------------------------------------------------------------------
(* Bookings: code generation *)

IsAlnum(ch) == IsLower(ch) \/ IsUpper(ch) \/ IsDigit(ch)

\* String.prototype.replace(/[^a-zA-Z0-9]/g, '')
RemoveNonAlnum(s) == SelectSeq(s, IsAlnum)

\* String.prototype.toUpperCase()
ToUpperCase(s) ==
    [i \in DOMAIN s |->
        IF IsLower(s[i])
        THEN UpperChars[CHOOSE k \in DOMAIN LowerChars : LowerChars[k] = s[i]]
        ELSE s[i]]

CleanNameKeepCase(name) == Substring0(RemoveNonAlnum(name), 3)
CleanName(name) == ToUpperCase(Substring0(RemoveNonAlnum(name), 3))

\* new Date(date).toISOString().split('T')[0].replace(/-/g, '')
IsoDate(date) ==
    LET civil == CivilFromDays(date.day)
    IN  PadStart(ToString(civil.year), 4, "0") \o <<"-">>
            \o PadStart(ToString(civil.month), 2, "0") \o <<"-">>
            \o PadStart(ToString(civil.date), 2, "0")
NotDash(ch) == ch # "-"
FormattedDate(date) == SelectSeq(IsoDate(date), NotDash)

\* `${cleanSender}_${cleanReceiver}_${formattedDate}_${suffix}`
BookingCodeOf(senderName, receiverName, date, suffix) ==
    CleanName(senderName) \o <<"_">> \o CleanName(receiverName) \o <<"_">>
        \o FormattedDate(date) \o <<"_">> \o suffix

\* sequence.toString().padStart(3, '0')
SeqStr(sequence) == PadStart(ToString(sequence), 3, "0")

\* Date.now().toString().slice(-6)
TimestampSuffixOfSeven(now) ==
    SliceLast(ToString(now.high) \o PadStart(ToString(now.low), 6, "0"), 7)
TimestampSuffix(now) ==
    SliceLast(ToString(now.high) \o PadStart(ToString(now.low), 6, "0"), 6)

\* Booking.findOne({ bookingCode })
BookingCodeExistsNever(stored, code) == FALSE
BookingCodeExists(stored, code) == \E b \in stored : b.bookingCode = code

-----------------------------------------------------------------------------
(* Bookings: schema *)

\* required fields, bundleCount min: 1, the status enum, the pickupPartner
\* validator (ids are valid ObjectIds)
BookingSchemaValid(doc) ==
    /\ doc.bundleCount >= 1
    /\ doc.status \in {"pending", "success"}

\* the unique index on bookingCode: an insert of a held code fails with a
\* duplicate key error
DuplicateKeyIgnored(stored, code) == FALSE
DuplicateBookingCode(stored, code) == \E b \in stored : b.bookingCode = code

-----------------------------------------------------------------------------
(* Bookings: the handlers *)

RequiredBookingFields ==
    {"sender", "receiver", "pickupPartner", "date", "expectedReceivingDate",
     "bundleCount"}

\* the checks shared by createBooking and updateBooking; each returns the
\* message of the ApiError.badRequest it throws, "" when it passes
NoError == ""
SenderError(id) ==
    IF ~CustomerExists(id) THEN "Sender customer not found"
    ELSE IF Customers[id].customerType # "Sender"
    THEN "Selected sender must be of type Sender"
    ELSE NoError
ReceiverError(id, body) ==
    IF ~CustomerExists(id) THEN "Receiver customer not found"
    ELSE IF Customers[id].customerType # "Receiver"
    THEN "Selected receiver must be of type Receiver"
    ELSE IF /\ Has(body, "receiverBranch")
            /\ Customers[id].branches # {}
            /\ body.receiverBranch \notin Customers[id].branches
    THEN "Selected branch does not exist for this receiver"
    ELSE NoError
PickupPartnerError(pickupPartner) ==
    IF /\ pickupPartner # "Self"
       /\ pickupPartner # "Central"
       /\ ~PickupPartnerExists(pickupPartner)
    THEN "Pickup partner not found"
    ELSE NoError
DatesErrorOnEarlier(date, expectedReceivingDate) ==
    IF DateLE(expectedReceivingDate, date) /\ expectedReceivingDate # date
    THEN "Expected receiving date must be after booking date"
    ELSE NoError
DatesError(date, expectedReceivingDate) ==
    IF DateLE(expectedReceivingDate, date)
    THEN "Expected receiving date must be after booking date"
    ELSE NoError

\* the first of a list of check results that is an error
RECURSIVE FirstError(_)
FirstError(results) ==
    IF results = <<>> THEN NoError
    ELSE IF Head(results) # NoError THEN Head(results)
    ELSE FirstError(Tail(results))

\* the checks of createBooking before it generates the code
CreateBookingError(body) ==
    IF \/ \E f \in RequiredBookingFields : ~Has(body, f)
       \/ body.bundleCount = 0
    THEN "All required fields must be provided"
    ELSE FirstError(<<SenderError(body.sender),
                      ReceiverError(body.receiver, body),
                      PickupPartnerError(body.pickupPartner),
                      DatesError(body.date, body.expectedReceivingDate),
                      IF body.bundleCount < 1
                      THEN "Bundle count must be at least 1" ELSE NoError>>)

\* createBooking up to the first probe of generateBookingCode
StartCreateBooking(r, body) ==
    /\ breq[r].pc = "idle"
    /\ BookingRoom
    /\ IF CreateBookingError(body) = NoError
       THEN /\ breq' = [breq EXCEPT ![r] =
                           [pc |-> "probe", body |-> body, sequence |-> 1,
                            bookingCode |-> <<>>, fallback |-> FALSE]]
            /\ UNCHANGED bresp
       ELSE /\ bresp' = [op |-> "create", id |-> 0, status |-> 400,
                         message |-> CreateBookingError(body)]
            /\ UNCHANGED breq
    /\ UNCHANGED <<bookings, nextBid>>
    /\ UNCHANGED exceptBookingVars

\* one pass of the do-while loop of generateBookingCode, as a request runs it
\* while another request is in flight: a probe, and the fallback once
\* sequence passes MaxSequence
ProbeBookingCode(r) ==
    /\ breq[r].pc = "probe"
    /\ LET body == breq[r].body
           senderName == Customers[body.sender].name
           receiverName == Customers[body.receiver].name
           sequence == breq[r].sequence
           bookingCode == BookingCodeOf(senderName, receiverName, body.date,
                                        SeqStr(sequence))
       IN  IF ~BookingCodeExists(bookings, bookingCode)
           THEN breq' = [breq EXCEPT ![r].pc = "insert",
                                     ![r].bookingCode = bookingCode]
           ELSE IF sequence + 1 <= MaxSequence
           THEN breq' = [breq EXCEPT ![r].sequence = sequence + 1]
           ELSE \E now \in Clock :
                    breq' = [breq EXCEPT
                                ![r].pc = "insert",
                                ![r].sequence = sequence + 1,
                                ![r].fallback = TRUE,
                                ![r].bookingCode =
                                    BookingCodeOf(senderName, receiverName,
                                                  body.date, TimestampSuffix(now))]
    /\ UNCHANGED <<bookings, nextBid, bresp>>
    /\ UNCHANGED exceptBookingVars

\* the do-while loop of generateBookingCode from one sequence number on,
\* against a store no other request changes meanwhile: the first sequence
\* number whose code no booking holds, MaxSequence + 1 when the loop ends
\* without one.  The passes are evaluated ProbeBlock at a time.
RECURSIVE FirstFreeUpTo(_, _, _, _)
FirstFreeUpTo(stored, stem, sequence, last) ==
    IF ~BookingCodeExists(stored, stem \o SeqStr(sequence)) THEN sequence
    ELSE IF sequence + 1 <= last
    THEN FirstFreeUpTo(stored, stem, sequence + 1, last)
    ELSE sequence + 1

RECURSIVE FirstFreeSequence(_, _, _)
FirstFreeSequence(stored, stem, sequence) ==
    LET end == sequence + ProbeBlock - 1
        last == IF end < MaxSequence THEN end ELSE MaxSequence
        found == FirstFreeUpTo(stored, stem, sequence, last)
    IN  IF found <= last \/ found > MaxSequence THEN found
        ELSE FirstFreeSequence(stored, stem, found)

\* generateBookingCode as a request runs it with no other request in between
GenerateBookingCode(r) ==
    /\ breq[r].pc = "probe"
    /\ LET body == breq[r].body
           stem == BookingCodeOf(Customers[body.sender].name,
                                 Customers[body.receiver].name, body.date, <<>>)
           sequence == FirstFreeSequence(bookings, stem, breq[r].sequence)
       IN  IF sequence <= MaxSequence
           THEN breq' = [breq EXCEPT
                            ![r].pc = "insert",
                            ![r].sequence = sequence,
                            ![r].bookingCode = stem \o SeqStr(sequence)]
           ELSE \E now \in Clock :
                    breq' = [breq EXCEPT
                                ![r].pc = "insert",
                                ![r].sequence = sequence,
                                ![r].fallback = TRUE,
                                ![r].bookingCode = stem \o TimestampSuffix(now)]
    /\ UNCHANGED <<bookings, nextBid, bresp>>
    /\ UNCHANGED exceptBookingVars

\* the document createBooking hands to Booking.create
BookingData(id, body, bookingCode) ==
    [id |-> id,
     bookingCode |-> bookingCode,
     sender |-> body.sender,
     receiver |-> body.receiver,
     receiverBranch |-> Get(body, "receiverBranch", ""),
     pickupPartner |-> body.pickupPartner,
     date |-> body.date,
     expectedReceivingDate |-> body.expectedReceivingDate,
     bundleCount |-> body.bundleCount,
     status |-> Get(body, "status", "pending")]

\* Booking.create and the response of createBooking: a ValidationError is
\* answered 400, a duplicate key on bookingCode is rethrown
InsertBooking(r) ==
    /\ breq[r].pc = "insert"
    /\ LET doc == BookingData(nextBid, breq[r].body, breq[r].bookingCode)
       IN  IF ~BookingSchemaValid(doc)
           THEN /\ bresp' = [op |-> "create", id |-> 0, status |-> 400, message |-> "Validation failed"]
                /\ UNCHANGED <<bookings, nextBid>>
           ELSE IF DuplicateBookingCode(bookings, doc.bookingCode)
           THEN /\ bresp' = [op |-> "create", id |-> 0, status |-> 500, message |-> "duplicate key"]
                /\ UNCHANGED <<bookings, nextBid>>
           ELSE /\ bookings' = bookings \cup {doc}
                /\ nextBid' = nextBid + 1
                /\ bresp' = [op |-> "create", id |-> doc.id, status |-> 201, message |-> "Booking created successfully"]
    /\ breq' = [breq EXCEPT ![r] = IdleBreq]
    /\ UNCHANGED exceptBookingVars

\* the updates object updateBooking builds from the body (bookingCode is
\* read from the body and never copied)
BookingUpdatesWithCode(body) ==
    [k \in DOMAIN body \cap
              {"bookingCode", "sender", "receiver", "pickupPartner",
               "receiverBranch", "date", "expectedReceivingDate",
               "bundleCount", "status"} |-> body[k]]
BookingUpdates(body) ==
    [k \in DOMAIN body \cap
              {"sender", "receiver", "pickupPartner", "receiverBranch", "date",
               "expectedReceivingDate", "bundleCount", "status"} |-> body[k]]

\* the checks of updateBooking
UpdateBookingError(body) ==
    FirstError(<<IF Has(body, "sender") THEN SenderError(body.sender) ELSE NoError,
                 IF Has(body, "receiver")
                 THEN ReceiverError(body.receiver, body) ELSE NoError,
                 IF Has(body, "pickupPartner")
                 THEN PickupPartnerError(body.pickupPartner) ELSE NoError,
                 IF Has(body, "date") /\ Has(body, "expectedReceivingDate")
                 THEN DatesError(body.date, body.expectedReceivingDate)
                 ELSE NoError>>)

UpdateBooking(id, body) ==
    /\ IF BookingById(id) = {}
       THEN /\ bresp' = [op |-> "update", id |-> id, status |-> 404, message |-> "Booking not found"]
            /\ UNCHANGED bookings
       ELSE IF UpdateBookingError(body) # NoError
       THEN /\ bresp' = [op |-> "update", id |-> id, status |-> 400,
                         message |-> UpdateBookingError(body)]
            /\ UNCHANGED bookings
       ELSE LET booking == Assign(TheBooking(id), BookingUpdates(body))
            IN  IF ~BookingSchemaValid(booking)
                THEN /\ bresp' = [op |-> "update", id |-> id, status |-> 500, message |-> "Validation failed"]
                     /\ UNCHANGED bookings
                ELSE /\ bookings' = (bookings \ BookingById(id)) \cup {booking}
                     /\ bresp' = [op |-> "update", id |-> id, status |-> 200, message |-> "Booking updated successfully"]
    /\ UNCHANGED <<nextBid, breq>>
    /\ UNCHANGED exceptBookingVars

\* the PackingList collection after deleteBooking: Booking.deleteOne is the
\* handler's only write
PackingListsCascaded(lists, id) == {p \in lists : p.bookingReference # id}
PackingListsAfterDeleteBooking(lists, id) == lists

DeleteBooking(id) ==
    /\ IF BookingById(id) = {}
       THEN /\ bresp' = [op |-> "delete", id |-> id, status |-> 404, message |-> "Booking not found"]
            /\ UNCHANGED <<bookings, packingLists>>
       ELSE /\ bookings' = bookings \ BookingById(id)
            /\ packingLists' = PackingListsAfterDeleteBooking(packingLists, id)
            /\ bresp' = [op |-> "delete", id |-> id, status |-> 200, message |-> "Booking deleted successfully"]
    /\ UNCHANGED <<nextBid, breq>>
    /\ UNCHANGED <<bundles, nextPid, nextBundleId, preq, presp>>
    /\ UNCHANGED <<containerVars, bundleVars, priceVars, reminderVars,
                   customerVars, pickupVars>>

NoBookings ==
    /\ bookings = {}
    /\ nextBid = 1
    /\ breq = [r \in BSlots |-> IdleBreq]
    /\ bresp = NoBresp

-----------------------------------------------------------------------------
(* Packing lists: bounds and inputs *)

MaxPackingId == 2          \* createPackingList requests that reach the lookup
MaxBundleId == 3           \* bundles created
PSlots == {"p1", "p2"}

Bundle1 == [bundleNumber |-> "1", quantity |-> 4]
Bundle2 == [bundleNumber |-> "2", quantity |-> 0]
BundleLists == {<<>>, <<Bundle1>>, <<Bundle1, Bundle2>>, <<Bundle1, Bundle1>>}

BookingRefs == BookingIds \cup {MaxBookingId + 1}

BasePackingList ==
    [bookingReference |-> 1, netWeight |-> 10, plannedBundleCount |-> 2]

\* req.body of POST /packing-lists as createPackingList receives it
CreatePackingListBodies ==
    {[BasePackingList EXCEPT !.bookingReference = b] : b \in BookingRefs}
    \cup {Put([BasePackingList EXCEPT !.bookingReference = b], "bundles", l) :
             b \in BookingIds, l \in BundleLists}
    \cup {Put(BasePackingList, "packingStatus", "completed")}
    \cup {[BasePackingList EXCEPT !.plannedBundleCount = -1]}

\* the bodies used where requests overlap
ScenarioPackingListBodies ==
    {BasePackingList, Put(BasePackingList, "bundles", <<Bundle1>>)}

\* req.body of PUT /packing-lists/:id as updatePackingList receives it
UpdatePackingListBodies ==
    [bookingReference : BookingRefs]
    \cup [bundles : BundleLists]
    \cup [packingStatus : {"completed"}]
    \cup [plannedBundleCount : {-1}]

PackingIds == 1 .. MaxPackingId

PackingListById(id) == {p \in packingLists : p.id = id}
ThePackingList(id) == CHOOSE p \in packingLists : p.id = id

IdlePreq ==
    [pc |-> "idle", body |-> EmptyBody, count |-> 0, packingListCode |-> <<>>,
     id |-> 0]
NoPresp == [op |-> "none", id |-> 0, status |-> 0]

PInFlight(r) == preq[r].pc # "idle"
NoPackingRequestInFlight == \A r \in PSlots : ~PInFlight(r)

\* the bound on the bundles a request may create
BundleRoom(body) == nextBundleId + Len(Get(body, "bundles", <<>>)) - 1 <= MaxBundleId

-----------------------------------------------------------------------------
(* Packing lists: schema *)

\* required fields, min: 0 and the packingStatus enum
PackingListSchemaValid(doc) ==
    /\ doc.netWeight >= 0
    /\ doc.plannedBundleCount >= 0
    /\ doc.actualBundleCount >= 0
    /\ doc.packingStatus \in {"pending", "in_progress", "completed"}

\* PackingListModel.findOne().sort({ count: -1 })
LastCount(stored) ==
    IF stored = {} THEN 0
    ELSE LET last == CHOOSE p \in stored : \A q \in stored : q.count <= p.count
         IN  last.count

\* `PL-${year}-`
PackingListPrefix(day) ==
    <<"P", "L", "-">> \o ToString(CivilFromDays(day).year) \o <<"-">>

\* PackingListModel.countDocuments({ packingListCode: /^PL-year-/ })
YearCount(stored, day) ==
    Cardinality({p \in stored :
                    StartsWith(p.packingListCode, PackingListPrefix(day))})

\* `PL-${year}-${String(yearCount + 1).padStart(3, '0')}`
PackingListCodeOf(stored, day) ==
    PackingListPrefix(day) \o PadStart(ToString(YearCount(stored, day) + 1), 3, "0")

\* the unique index on packingListCode; bookingReference is indexed, not
\* unique
PackingListDuplicateKeyOrBooking(stored, doc) ==
    \E p \in stored :
        \/ p.packingListCode = doc.packingListCode
        \/ p.bookingReference = doc.bookingReference
PackingListDuplicateKey(stored, doc) ==
    \E p \in stored : p.packingListCode = doc.packingListCode

\* the paths of a bundle the ready-to-ship handlers write, as a new bundle
\* holds them: readyToShipStatus pending and no container ("")
ReadyToShipStatuses == {"pending", "stuffed", "dispatched"}
BundleShippingDefaults == [readyToShipStatus |-> "pending", container |-> ""]

\* required bundleNumber (minLength 1) and quantity (min: 0), the status enum
BundleSchemaValid(doc) ==
    /\ doc.bundleNumber # ""
    /\ doc.quantity >= 0
    /\ doc.status \in {"pending", "in_progress", "completed"}
    /\ doc.readyToShipStatus \in ReadyToShipStatuses

\* the unique index on { packingList, bundleNumber }
BundleDuplicateKeyNever(stored, doc) == FALSE
BundleDuplicateKey(stored, doc) ==
    \E b \in stored :
        b.packingList = doc.packingList /\ b.bundleNumber = doc.bundleNumber

-----------------------------------------------------------------------------
(* Packing lists: the handlers *)

\* PackingList.findOne({ bookingReference })
NoPackingListsOfBooking(stored, bookingReference) == {}
PackingListsOfBooking(stored, bookingReference) ==
    {p \in stored : p.bookingReference = bookingReference}

\* the filter of Bundle.deleteMany({ packingList: packingList._id })
BundlesOfNone(stored, id) == {}
BundlesOf(stored, id) == {b \in stored : b.packingList = id}

\* Promise.all(bundles.map(bundle => Bundle.create(...))): the collection
\* afterwards, the ids created and whether one of the creates failed
RECURSIVE CreateBundles(_, _, _, _)
CreateBundles(stored, pid, items, nextId) ==
    IF items = <<>>
    THEN [stored |-> stored, ids |-> {}, failed |-> FALSE, nextId |-> nextId]
    ELSE LET doc == [id |-> nextId,
                     packingList |-> pid,
                     bundleNumber |-> Get(Head(items), "bundleNumber", ""),
                     quantity |-> Head(items).quantity,
                     status |-> Get(Head(items), "status", "pending"),
                     readyToShipStatus |-> BundleShippingDefaults.readyToShipStatus,
                     container |-> BundleShippingDefaults.container]
             ok == BundleSchemaValid(doc) /\ ~BundleDuplicateKey(stored, doc)
             rest == CreateBundles(IF ok THEN stored \cup {doc} ELSE stored, pid,
                                   Tail(items), IF ok THEN nextId + 1 ELSE nextId)
         IN  [stored |-> rest.stored,
              ids |-> IF ok THEN {nextId} \cup rest.ids ELSE rest.ids,
              failed |-> ~ok \/ rest.failed,
              nextId |-> rest.nextId]

\* createPackingList up to the call of PackingList.create
StartCreatePackingList(r, body) ==
    /\ preq[r].pc = "idle"
    /\ nextPid <= MaxPackingId
    /\ BundleRoom(body)
    /\ IF BookingById(body.bookingReference) = {}
       THEN /\ presp' = [op |-> "create", id |-> 0, status |-> 400]
            /\ UNCHANGED <<preq, nextPid>>
       ELSE IF PackingListsOfBooking(packingLists, body.bookingReference) # {}
       THEN /\ presp' = [op |-> "create", id |-> 0, status |-> 409]
            /\ UNCHANGED <<preq, nextPid>>
       ELSE /\ preq' = [preq EXCEPT ![r] =
                           [IdlePreq EXCEPT !.pc = "presave", !.body = body,
                                            !.id = nextPid]]
            /\ nextPid' = nextPid + 1
            /\ UNCHANGED presp
    /\ UNCHANGED <<packingLists, bundles, nextBundleId>>
    /\ UNCHANGED exceptPackingVars

\* the document createPackingList hands to PackingList.create
PackingListData(id, body) ==
    [id |-> id,
     bookingReference |-> body.bookingReference,
     packingListCode |-> <<>>,
     boxNumber |-> <<>>,
     count |-> 0,
     netWeight |-> body.netWeight,
     plannedBundleCount |-> body.plannedBundleCount,
     actualBundleCount |-> Get(body, "actualBundleCount", 0),
     packingStatus |-> Get(body, "packingStatus", "pending"),
     bundles |-> {}]

\* PackingList.create up to the insert: validation, then the pre('save')
\* hook reads the collection for count and packingListCode
PreSavePackingList(r) ==
    /\ preq[r].pc = "presave"
    /\ IF ~PackingListSchemaValid(PackingListData(preq[r].id, preq[r].body))
       THEN /\ presp' = [op |-> "create", id |-> 0, status |-> 500]
            /\ preq' = [preq EXCEPT ![r] = IdlePreq]
       ELSE /\ preq' = [preq EXCEPT
                           ![r].pc = "insert",
                           ![r].count = LastCount(packingLists) + 1,
                           ![r].packingListCode =
                               PackingListCodeOf(packingLists, today)]
            /\ UNCHANGED presp
    /\ UNCHANGED <<packingLists, bundles, nextPid, nextBundleId>>
    /\ UNCHANGED exceptPackingVars

\* the insert of PackingList.create; without bundles in the body the
\* response follows
InsertPackingList(r) ==
    /\ preq[r].pc = "insert"
    /\ LET doc == [PackingListData(preq[r].id, preq[r].body) EXCEPT
                      !.count = preq[r].count,
                      !.packingListCode = preq[r].packingListCode,
                      !.boxNumber = preq[r].packingListCode]
       IN  IF PackingListDuplicateKey(packingLists, doc)
           THEN /\ presp' = [op |-> "create", id |-> 0, status |-> 500]
                /\ preq' = [preq EXCEPT ![r] = IdlePreq]
                /\ UNCHANGED packingLists
           ELSE /\ packingLists' = packingLists \cup {doc}
                /\ IF Get(preq[r].body, "bundles", <<>>) # <<>>
                   THEN /\ preq' = [preq EXCEPT ![r].pc = "bundles"]
                        /\ UNCHANGED presp
                   ELSE /\ preq' = [preq EXCEPT ![r] = IdlePreq]
                        /\ presp' = [op |-> "create", id |-> doc.id,
                                     status |-> 201]
    /\ UNCHANGED <<bundles, nextPid, nextBundleId>>
    /\ UNCHANGED exceptPackingVars

\* the Bundle collection after the Promise.all of createPackingList: a
\* rejected create leaves the documents of the others in place
BundlesRolledBack(before, made) ==
    IF made.failed THEN before ELSE made.stored
BundlesAfterCreates(before, made) == made.stored

\* the bundles of createPackingList: Bundle.create for each, then
\* packingList.bundles and packingList.save()
CreatePackingListBundles(r) ==
    /\ preq[r].pc = "bundles"
    /\ LET made == CreateBundles(bundles, preq[r].id, preq[r].body.bundles,
                                 nextBundleId)
       IN  /\ bundles' = BundlesAfterCreates(bundles, made)
           /\ nextBundleId' = made.nextId
           /\ IF made.failed \/ PackingListById(preq[r].id) = {}
              THEN /\ presp' = [op |-> "create", id |-> preq[r].id,
                                status |-> 500]
                   /\ UNCHANGED packingLists
              ELSE /\ packingLists' =
                          (packingLists \ PackingListById(preq[r].id))
                              \cup {[ThePackingList(preq[r].id) EXCEPT
                                        !.bundles = made.ids]}
                   /\ presp' = [op |-> "create", id |-> preq[r].id,
                                status |-> 201]
    /\ preq' = [preq EXCEPT ![r] = IdlePreq]
    /\ UNCHANGED nextPid
    /\ UNCHANGED exceptPackingVars

\* the fields updatePackingList copies from the body
PackingListUpdates(body) ==
    [k \in DOMAIN body \cap
              {"netWeight", "plannedBundleCount", "actualBundleCount",
               "packingStatus"} |-> body[k]]

\* whether the body of updatePackingList changes the booking reference
ChangesBookingReference(packingList, body) ==
    /\ Has(body, "bookingReference")
    /\ body.bookingReference # packingList.bookingReference

UpdatePackingList(id, body) ==
    /\ BundleRoom(body)
    /\ IF PackingListById(id) = {}
       THEN /\ presp' = [op |-> "update", id |-> id, status |-> 404]
            /\ UNCHANGED <<packingLists, bundles, nextBundleId>>
       ELSE LET packingList == ThePackingList(id)
                changes == ChangesBookingReference(packingList, body)
            IN  IF changes /\ BookingById(body.bookingReference) = {}
                THEN /\ presp' = [op |-> "update", id |-> id, status |-> 400]
                     /\ UNCHANGED <<packingLists, bundles, nextBundleId>>
                ELSE IF /\ changes
                        /\ PackingListsOfBooking(packingLists \ {packingList},
                                                 body.bookingReference) # {}
                THEN /\ presp' = [op |-> "update", id |-> id, status |-> 409]
                     /\ UNCHANGED <<packingLists, bundles, nextBundleId>>
                ELSE LET kept == bundles \ BundlesOf(bundles, id)
                         made == IF Has(body, "bundles")
                                 THEN CreateBundles(kept, id, body.bundles,
                                                    nextBundleId)
                                 ELSE [stored |-> bundles,
                                       ids |-> packingList.bundles,
                                       failed |-> FALSE,
                                       nextId |-> nextBundleId]
                         updated ==
                             [Assign(packingList, PackingListUpdates(body))
                                 EXCEPT !.bookingReference =
                                            IF changes
                                            THEN body.bookingReference
                                            ELSE @,
                                        !.bundles = made.ids]
                     IN  /\ bundles' = made.stored
                         /\ nextBundleId' = made.nextId
                         /\ IF made.failed \/ ~PackingListSchemaValid(updated)
                            THEN /\ presp' = [op |-> "update", id |-> id,
                                              status |-> 500]
                                 /\ UNCHANGED packingLists
                            ELSE /\ packingLists' =
                                        (packingLists \ {packingList})
                                            \cup {updated}
                                 /\ presp' = [op |-> "update", id |-> id,
                                              status |-> 200]
    /\ UNCHANGED <<nextPid, preq>>
    /\ UNCHANGED exceptPackingVars

DeletePackingList(id) ==
    /\ IF PackingListById(id) = {}
       THEN /\ presp' = [op |-> "delete", id |-> id, status |-> 404]
            /\ UNCHANGED <<packingLists, bundles>>
       ELSE IF ThePackingList(id).packingStatus = "completed"
       THEN /\ presp' = [op |-> "delete", id |-> id, status |-> 400]
            /\ UNCHANGED <<packingLists, bundles>>
       ELSE /\ bundles' = bundles \ BundlesOf(bundles, id)
            /\ packingLists' = packingLists \ PackingListById(id)
            /\ presp' = [op |-> "delete", id |-> id, status |-> 200]
    /\ UNCHANGED <<nextPid, nextBundleId, preq>>
    /\ UNCHANGED exceptPackingVars

NoPackingLists ==
    /\ packingLists = {}
    /\ bundles = {}
    /\ nextPid = 1
    /\ nextBundleId = 1
    /\ preq = [r \in PSlots |-> IdlePreq]
    /\ presp = NoPresp

-----------------------------------------------------------------------------
(* Bundles: bounds and inputs *)

USlots == {"u1", "u2"}
BundleIds == 1 .. MaxBundleId

\* container ids as updateReadyToShipBundle receives them: "" is the empty
\* value, "c1" passes Types.ObjectId.isValid, "zz" does not
ValidContainerIds == {"c1"}
ContainerRefs == {"", "c1", "zz"}

\* req.body of POST /bundles as createBundle receives it
CreateBundleBodies ==
    [packingListId : PackingIds \cup {MaxPackingId + 1},
     bundleNumber : {"1", "2"}, quantity : {4}]
    \cup [packingListId : {1}, bundleNumber : {"1"}, quantity : {4},
          status : {"completed"}]

\* req.body of PUT /bundles/:id as updateBundle receives it
UpdateBundleBodies ==
    [packingListId : PackingIds \cup {MaxPackingId + 1}]
    \cup [bundleNumber : {"1", "2"}]
    \cup [packingListId : PackingIds, bundleNumber : {"1", "2"}]
    \cup [status : {"completed", "pending"}]
    \cup [quantity : {-1}]

\* req.body of PUT /ready-to-ship/:id as updateReadyToShipBundle receives it
ReadyToShipBodies ==
    [bundleNumber : {"1", "2"}]
    \cup [readyToShipStatus : ReadyToShipStatuses]
    \cup [readyToShipStatus : ReadyToShipStatuses, container : ContainerRefs]
    \cup [container : ContainerRefs]

BundleById(id) == {b \in bundles : b.id = id}
TheBundle(id) == CHOOSE b \in bundles : b.id = id

IdleUreq ==
    [pc |-> "idle", op |-> "none", id |-> 0, body |-> EmptyBody,
     modified |-> {}]
NoUresp == [op |-> "none", id |-> 0, status |-> 0, modified |-> {}]

UInFlight(r) == ureq[r].pc # "idle"
NoBundleRequestInFlight == \A r \in USlots : ~UInFlight(r)

\* the bound on the bundles createBundle may create
CreateBundleRoom ==
    nextBundleId + Cardinality({r \in USlots : ureq[r].pc = "insert"})
        <= MaxBundleId

-----------------------------------------------------------------------------
(* Bundles: the handlers *)

\* Bundle.findOne({ packingList, bundleNumber, _id: { $ne } }) over the
\* bundles other than the request's own
BundleNumberTaken(others, packingList, bundleNumber) ==
    {b \in others : b.packingList = packingList /\ b.bundleNumber = bundleNumber}

\* createBundle up to the call of Bundle.create
StartCreateBundle(r, body) ==
    /\ ureq[r].pc = "idle"
    /\ CreateBundleRoom
    /\ IF PackingListById(body.packingListId) = {}
       THEN /\ uresp' = [op |-> "create", id |-> 0, status |-> 400,
                         modified |-> {}]
            /\ UNCHANGED ureq
       ELSE IF BundleNumberTaken(bundles, body.packingListId,
                                 body.bundleNumber) # {}
       THEN /\ uresp' = [op |-> "create", id |-> 0, status |-> 409,
                         modified |-> {}]
            /\ UNCHANGED ureq
       ELSE /\ ureq' = [ureq EXCEPT ![r] =
                           [IdleUreq EXCEPT !.pc = "insert", !.op = "create",
                                            !.body = body]]
            /\ UNCHANGED uresp
    /\ UNCHANGED <<packingLists, bundles, nextPid, nextBundleId, preq, presp>>
    /\ UNCHANGED exceptBundleVars

\* the document createBundle hands to Bundle.create
BundleData(id, body) ==
    [id |-> id,
     packingList |-> body.packingListId,
     bundleNumber |-> body.bundleNumber,
     quantity |-> body.quantity,
     status |-> Get(body, "status", "pending"),
     readyToShipStatus |-> BundleShippingDefaults.readyToShipStatus,
     container |-> BundleShippingDefaults.container]

\* Bundle.create and the response of createBundle
\* the PackingList collection after createBundle stored a bundle: the
\* handler writes the Bundle collection only
PackingListsListingBundle(lists, doc) ==
    {IF p.id = doc.packingList
     THEN [p EXCEPT !.bundles = @ \cup {doc.id}] ELSE p : p \in lists}
PackingListsAfterBundle(lists, doc) == lists

InsertBundle(r) ==
    /\ ureq[r].pc = "insert"
    /\ LET doc == BundleData(nextBundleId, ureq[r].body)
       IN  IF ~BundleSchemaValid(doc) \/ BundleDuplicateKey(bundles, doc)
           THEN /\ uresp' = [op |-> "create", id |-> 0, status |-> 500,
                             modified |-> {}]
                /\ UNCHANGED <<bundles, nextBundleId, packingLists>>
           ELSE /\ bundles' = bundles \cup {doc}
                /\ packingLists' = PackingListsAfterBundle(packingLists, doc)
                /\ nextBundleId' = nextBundleId + 1
                /\ uresp' = [op |-> "create", id |-> doc.id, status |-> 201,
                             modified |-> {}]
    /\ ureq' = [ureq EXCEPT ![r] = IdleUreq]
    /\ UNCHANGED <<nextPid, preq, presp>>
    /\ UNCHANGED exceptBundleVars

\* the paths of a loaded document that differ after the handler's
\* assignments: what save() writes
ModifiedPaths(loaded, doc) == {k \in DOMAIN loaded : doc[k] # loaded[k]}

\* a request that loaded a bundle, assigned to it and now awaits save()
AwaitingSave(op, id, doc, loaded) ==
    [pc |-> "save", op |-> op, id |-> id, body |-> doc,
     modified |-> ModifiedPaths(loaded, doc)]

\* the bundle updateBundle holds before bundle.save(): the packing list
\* and the number from the body, then the other fields
UpdatedBundle(bundle, body) ==
    [bundle EXCEPT
        !.packingList = Get(body, "packingListId", @),
        !.bundleNumber = Get(body, "bundleNumber", @),
        !.quantity = Get(body, "quantity", @),
        !.status = Get(body, "status", @)]

\* updateBundle up to bundle.save().  A body that changes the packing list
\* without a bundleNumber looks up bundleNumber: undefined, which no stored
\* bundle matches.
StartUpdateBundle(r, id, body) ==
    /\ ureq[r].pc = "idle"
    /\ IF BundleById(id) = {}
       THEN /\ uresp' = [op |-> "update", id |-> id, status |-> 404,
                         modified |-> {}]
            /\ UNCHANGED ureq
       ELSE LET bundle == TheBundle(id)
                others == bundles \ {bundle}
                moves == /\ Has(body, "packingListId")
                         /\ body.packingListId # bundle.packingList
                target == IF moves THEN body.packingListId
                          ELSE bundle.packingList
                renumbers == /\ Has(body, "bundleNumber")
                             /\ body.bundleNumber # bundle.bundleNumber
            IN  IF moves /\ PackingListById(body.packingListId) = {}
                THEN /\ uresp' = [op |-> "update", id |-> id, status |-> 400,
                                  modified |-> {}]
                     /\ UNCHANGED ureq
                ELSE IF \/ /\ moves
                           /\ Has(body, "bundleNumber")
                           /\ BundleNumberTaken(others, target,
                                                body.bundleNumber) # {}
                        \/ /\ renumbers
                           /\ BundleNumberTaken(others, target,
                                                body.bundleNumber) # {}
                THEN /\ uresp' = [op |-> "update", id |-> id, status |-> 409,
                                  modified |-> {}]
                     /\ UNCHANGED ureq
                ELSE /\ ureq' = [ureq EXCEPT ![r] =
                                    AwaitingSave("update", id,
                                                 UpdatedBundle(bundle, body),
                                                 bundle)]
                     /\ UNCHANGED uresp
    /\ UNCHANGED packingVars
    /\ UNCHANGED exceptBundleVars

\* bundle.status !== 'completed' in getReadyToShipBundle and
\* updateReadyToShipBundle
NotCompletedNever(bundle) == FALSE
NotCompleted(bundle) == bundle.status # "completed"

\* the first branch of the container assignment in updateReadyToShipBundle
SetsContainer(body) ==
    /\ Get(body, "readyToShipStatus", "undefined") \in {"stuffed", "dispatched"}
    /\ Has(body, "container")
    /\ body.container # ""

\* the container updateReadyToShipBundle leaves on the bundle
ContainerKeptWithoutStatus(bundle, body) ==
    IF SetsContainer(body) THEN body.container
    ELSE IF Has(body, "readyToShipStatus")
            /\ body.readyToShipStatus \notin {"stuffed", "dispatched"}
    THEN ""
    ELSE bundle.container
ContainerAfter(bundle, body) ==
    LET readyToShipStatus == Get(body, "readyToShipStatus", "undefined")
    IN  IF SetsContainer(body)
        THEN body.container
        ELSE IF readyToShipStatus \notin {"stuffed", "dispatched"}
        THEN ""
        ELSE bundle.container

\* the bundle updateReadyToShipBundle holds before bundle.save()
ReadyToShipBundle(bundle, body) ==
    [bundle EXCEPT
        !.bundleNumber = Get(body, "bundleNumber", @),
        !.quantity = Get(body, "quantity", @),
        !.readyToShipStatus = Get(body, "readyToShipStatus", @),
        !.container = ContainerAfter(bundle, body)]

\* updateReadyToShipBundle up to bundle.save()
StartUpdateReadyToShip(r, id, body) ==
    /\ ureq[r].pc = "idle"
    /\ IF BundleById(id) = {}
       THEN /\ uresp' = [op |-> "shipUpdate", id |-> id, status |-> 404,
                         modified |-> {}]
            /\ UNCHANGED ureq
       ELSE IF NotCompleted(TheBundle(id))
       THEN /\ uresp' = [op |-> "shipUpdate", id |-> id, status |-> 400,
                         modified |-> {}]
            /\ UNCHANGED ureq
       ELSE LET doc == ReadyToShipBundle(TheBundle(id), body)
            IN  IF /\ SetsContainer(body)
                   /\ body.container \notin ValidContainerIds
                THEN /\ uresp' = [op |-> "shipUpdate", id |-> id,
                                  status |-> 400,
                                  modified |-> {}]
                     /\ UNCHANGED ureq
                ELSE /\ ureq' = [ureq EXCEPT ![r] =
                                    AwaitingSave("shipUpdate", id, doc,
                                                 TheBundle(id))]
                     /\ UNCHANGED uresp
    /\ UNCHANGED packingVars
    /\ UNCHANGED exceptBundleVars

\* bundle.save() of updateBundle and updateReadyToShipBundle: validation of
\* the document in hand, then the modified paths are written to the stored
\* document under the unique index
SaveBundle(r) ==
    /\ ureq[r].pc = "save"
    /\ LET doc == ureq[r].body
           id == ureq[r].id
           written == [k \in ureq[r].modified |-> doc[k]]
       IN  IF \/ ~BundleSchemaValid(doc)
              \/ BundleById(id) = {}
              \/ BundleDuplicateKey(bundles \ BundleById(id),
                                    Assign(TheBundle(id), written))
           THEN /\ uresp' = [op |-> ureq[r].op, id |-> id, status |-> 500,
                             modified |-> {}]
                /\ UNCHANGED bundles
           ELSE /\ bundles' = (bundles \ BundleById(id))
                                  \cup {Assign(TheBundle(id), written)}
                /\ uresp' = [op |-> ureq[r].op, id |-> id, status |-> 200,
                             modified |-> ureq[r].modified]
    /\ ureq' = [ureq EXCEPT ![r] = IdleUreq]
    /\ UNCHANGED <<packingLists, nextPid, nextBundleId, preq, presp>>
    /\ UNCHANGED exceptBundleVars

GetReadyToShipBundle(id) ==
    /\ uresp' = [op |-> "shipGet", id |-> id,
                 status |-> IF BundleById(id) = {} THEN 404
                            ELSE IF NotCompleted(TheBundle(id))
                            THEN 400
                            ELSE 200,
                 modified |-> {}]
    /\ UNCHANGED ureq
    /\ UNCHANGED packingVars
    /\ UNCHANGED exceptBundleVars

DeleteBundle(id) ==
    /\ IF BundleById(id) = {}
       THEN /\ uresp' = [op |-> "delete", id |-> id, status |-> 404,
                         modified |-> {}]
            /\ UNCHANGED bundles
       ELSE /\ bundles' = bundles \ BundleById(id)
            /\ uresp' = [op |-> "delete", id |-> id, status |-> 200,
                         modified |-> {}]
    /\ UNCHANGED ureq
    /\ UNCHANGED <<packingLists, nextPid, nextBundleId, preq, presp>>
    /\ UNCHANGED exceptBundleVars

NoBundleRequests ==
    /\ ureq = [r \in USlots |-> IdleUreq]
    /\ uresp = NoUresp

-----------------------------------------------------------------------------
(* Delivery partners and price listings: bounds and inputs *)

MaxPartnerId == 2
MaxListingId == 1

PartnerIds == 1 .. MaxPartnerId
ListingIds == 1 .. MaxListingId

\* the delivery partner ids of the bodies: 0 stands for null, the last one
\* for an id no delivery partner has
PartnerRefs == 0 .. (MaxPartnerId + 1)

Prices == {3, 5}
Amounts == {10, 20}

\* req.body of createDeliveryPartner; phoneNumber, fromCountry and toCountry
\* are present in every body
CreateDeliveryPartnerBodies ==
    [name : {"dp"}, price : Prices \cup {-1}]
    \cup [price : Prices]

\* req.body of updateDeliveryPartner
UpdateDeliveryPartnerBodies == [price : Prices \cup {-1}]

\* req.body of createPriceListing; the countries carry no surrounding blanks
BasePriceListing == [fromCountry |-> "India", toCountry |-> "UAE"]
CreatePriceListingBodies ==
    {Put(BasePriceListing, "amount", a) : a \in Amounts \cup {-1}}
    \cup {Put(Put(BasePriceListing, "amount", 10), "deliveryPartnerId", d) :
             d \in PartnerRefs}
    \cup {BasePriceListing}

\* req.body of updatePriceListing
UpdatePriceListingBodies ==
    [amount : Amounts \cup {-1}]
    \cup [deliveryPartnerId : PartnerRefs]
    \cup [amount : {20}, deliveryPartnerId : PartnerRefs]
    \cup [status : {"Inactive"}]

DeliveryPartnerById(id) == {d \in deliveryPartners : d.id = id}
TheDeliveryPartner(id) == CHOOSE d \in deliveryPartners : d.id = id
PriceListingById(id) == {l \in priceListings : l.id = id}
ThePriceListing(id) == CHOOSE l \in priceListings : l.id = id

NoLresp == [op |-> "none", id |-> 0, status |-> 0]

-----------------------------------------------------------------------------
(* Delivery partners and price listings: schema *)

\* price: min 0 and the status enum
DeliveryPartnerSchemaValid(doc) ==
    /\ doc.price >= 0
    /\ doc.status \in {"Active", "Inactive"}

\* amount and totalAmount: min 0, and the status enum
PriceListingSchemaValid(doc) ==
    /\ doc.amount >= 0
    /\ doc.totalAmount >= 0
    /\ doc.status \in {"Active", "Inactive"}

-----------------------------------------------------------------------------
(* Delivery partners: the handlers *)

CreateDeliveryPartner(body) ==
    /\ nextDpId <= MaxPartnerId
    /\ IF ~Has(body, "name") \/ ~Has(body, "price")
       THEN /\ lresp' = [op |-> "createPartner", id |-> 0, status |-> 400]
            /\ UNCHANGED <<deliveryPartners, nextDpId>>
       ELSE LET doc == [id |-> nextDpId, name |-> body.name,
                        price |-> body.price,
                        status |-> Get(body, "status", "Active")]
            IN  IF ~DeliveryPartnerSchemaValid(doc)
                THEN /\ lresp' = [op |-> "createPartner", id |-> 0,
                                  status |-> 400]
                     /\ UNCHANGED <<deliveryPartners, nextDpId>>
                ELSE /\ deliveryPartners' = deliveryPartners \cup {doc}
                     /\ nextDpId' = nextDpId + 1
                     /\ lresp' = [op |-> "createPartner", id |-> doc.id,
                                  status |-> 201]
    /\ UNCHANGED <<priceListings, nextPlId>>
    /\ UNCHANGED exceptPriceVars

\* the fields updateDeliveryPartner copies from the body
DeliveryPartnerUpdates(body) ==
    [k \in DOMAIN body \cap {"name", "price", "status"} |-> body[k]]

UpdateDeliveryPartner(id, body) ==
    /\ IF DeliveryPartnerById(id) = {}
       THEN /\ lresp' = [op |-> "updatePartner", id |-> id, status |-> 404]
            /\ UNCHANGED deliveryPartners
       ELSE LET doc == Assign(TheDeliveryPartner(id),
                              DeliveryPartnerUpdates(body))
            IN  IF ~DeliveryPartnerSchemaValid(doc)
                THEN /\ lresp' = [op |-> "updatePartner", id |-> id,
                                  status |-> 500]
                     /\ UNCHANGED deliveryPartners
                ELSE /\ deliveryPartners' =
                            (deliveryPartners \ DeliveryPartnerById(id))
                                \cup {doc}
                     /\ lresp' = [op |-> "updatePartner", id |-> id,
                                  status |-> 200]
    /\ UNCHANGED <<nextDpId, priceListings, nextPlId>>
    /\ UNCHANGED exceptPriceVars

DeleteDeliveryPartner(id) ==
    /\ IF DeliveryPartnerById(id) = {}
       THEN /\ lresp' = [op |-> "deletePartner", id |-> id, status |-> 404]
            /\ UNCHANGED deliveryPartners
       ELSE /\ deliveryPartners' = deliveryPartners \ DeliveryPartnerById(id)
            /\ lresp' = [op |-> "deletePartner", id |-> id, status |-> 200]
    /\ UNCHANGED <<nextDpId, priceListings, nextPlId>>
    /\ UNCHANGED exceptPriceVars

-----------------------------------------------------------------------------
(* Price listings: the handlers *)

\* totalAmount += deliveryPartner.price
DeliveryChargeWaived(amount, deliveryPartner) == amount
WithDeliveryCharge(amount, deliveryPartner) == amount + deliveryPartner.price

\* the totalAmount of createPriceListing and updatePriceListing for a
\* partner id that is set and found
TotalAmountOf(amount, partnerId) ==
    IF partnerId = 0 THEN amount
    ELSE WithDeliveryCharge(amount, TheDeliveryPartner(partnerId))

\* DeliveryPartner.findById finds nothing for an id that is set
InvalidDeliveryPartner(partnerId) ==
    partnerId # 0 /\ DeliveryPartnerById(partnerId) = {}

CreatePriceListing(body) ==
    /\ nextPlId <= MaxListingId
    /\ IF ~Has(body, "fromCountry") \/ ~Has(body, "toCountry")
          \/ ~Has(body, "amount")
       THEN /\ lresp' = [op |-> "create", id |-> 0, status |-> 400]
            /\ UNCHANGED <<priceListings, nextPlId>>
       ELSE IF InvalidDeliveryPartner(Get(body, "deliveryPartnerId", 0))
       THEN /\ lresp' = [op |-> "create", id |-> 0, status |-> 400]
            /\ UNCHANGED <<priceListings, nextPlId>>
       ELSE LET doc ==
                    [id |-> nextPlId,
                     fromCountry |-> body.fromCountry,
                     toCountry |-> body.toCountry,
                     deliveryPartnerId |-> Get(body, "deliveryPartnerId", 0),
                     amount |-> body.amount,
                     totalAmount |->
                         TotalAmountOf(body.amount,
                                       Get(body, "deliveryPartnerId", 0)),
                     status |-> Get(body, "status", "Active")]
            IN  IF ~PriceListingSchemaValid(doc)
                THEN /\ lresp' = [op |-> "create", id |-> 0, status |-> 400]
                     /\ UNCHANGED <<priceListings, nextPlId>>
                ELSE /\ priceListings' = priceListings \cup {doc}
                     /\ nextPlId' = nextPlId + 1
                     /\ lresp' = [op |-> "create", id |-> doc.id,
                                  status |-> 201]
    /\ UNCHANGED <<deliveryPartners, nextDpId>>
    /\ UNCHANGED exceptPriceVars

\* amount !== undefined || deliveryPartnerId !== undefined
RecalculatesAlways(body) == TRUE
Recalculates(body) == Has(body, "amount") \/ Has(body, "deliveryPartnerId")

\* the updates object of updatePriceListing for a partner that is found
PriceListingUpdates(priceListing, body) ==
    LET copied == [k \in DOMAIN body \cap
                             {"fromCountry", "toCountry", "deliveryPartnerId",
                              "amount", "status"} |-> body[k]]
    IN  IF Recalculates(body)
        THEN Put(copied, "totalAmount",
                 TotalAmountOf(Get(body, "amount", priceListing.amount),
                               Get(body, "deliveryPartnerId",
                                   priceListing.deliveryPartnerId)))
        ELSE copied

UpdatePriceListing(id, body) ==
    /\ IF PriceListingById(id) = {}
       THEN /\ lresp' = [op |-> "update", id |-> id, status |-> 404]
            /\ UNCHANGED priceListings
       ELSE LET priceListing == ThePriceListing(id)
            IN  IF /\ Recalculates(body)
                   /\ InvalidDeliveryPartner(
                          Get(body, "deliveryPartnerId",
                              priceListing.deliveryPartnerId))
                THEN /\ lresp' = [op |-> "update", id |-> id, status |-> 400]
                     /\ UNCHANGED priceListings
                ELSE LET doc == Assign(priceListing,
                                       PriceListingUpdates(priceListing, body))
                     IN  IF ~PriceListingSchemaValid(doc)
                         THEN /\ lresp' = [op |-> "update", id |-> id,
                                           status |-> 500]
                              /\ UNCHANGED priceListings
                         ELSE /\ priceListings' =
                                     (priceListings \ {priceListing})
                                         \cup {doc}
                              /\ lresp' = [op |-> "update", id |-> id,
                                           status |-> 200]
    /\ UNCHANGED <<deliveryPartners, nextDpId, nextPlId>>
    /\ UNCHANGED exceptPriceVars

DeletePriceListing(id) ==
    /\ IF PriceListingById(id) = {}
       THEN /\ lresp' = [op |-> "delete", id |-> id, status |-> 404]
            /\ UNCHANGED priceListings
       ELSE /\ priceListings' = priceListings \ PriceListingById(id)
            /\ lresp' = [op |-> "delete", id |-> id, status |-> 200]
    /\ UNCHANGED <<deliveryPartners, nextDpId, nextPlId>>
    /\ UNCHANGED exceptPriceVars

NoPriceListings ==
    /\ deliveryPartners = {}
    /\ nextDpId = 1
    /\ priceListings = {}
    /\ nextPlId = 1
    /\ lresp = NoLresp

-----------------------------------------------------------------------------
(* Reminders: bounds and inputs *)

MaxReminderId == 2
MaxSends == 2

ReminderIds == 1 .. MaxReminderId

\* the customerId of a body: a customer with a WhatsApp number, another one,
\* one without a number, an id no customer has, and the empty value
CustomerRefs == {"cA", "cB", "cC", "cX", ""}

\* req.body of createReminder; date and description are present and valid in
\* every body
CreateReminderBodies ==
    [purpose : {"call"}]
    \cup [purpose : {"call"}, whatsapp : {TRUE},
          customerId : CustomerRefs \ {"cB"}]
    \cup [purpose : {"call"}, whatsapp : {FALSE}, customerId : {"cA"}]
    \cup [whatsapp : {TRUE}, customerId : {"cA"}]

\* req.body of updateReminder
UpdateReminderBodies ==
    [purpose : {""}]
    \cup [whatsapp : BOOLEAN]
    \cup [customerId : CustomerRefs]

\* result.error of a send that failed
SendError == "Failed to send WhatsApp message"

ReminderById(id) == {m \in reminders : m.id = id}
TheReminder(id) == CHOOSE m \in reminders : m.id = id

NoRresp == [op |-> "none", id |-> 0, status |-> 0]

-----------------------------------------------------------------------------
(* Reminders: the handlers *)

\* the outcome of whatsappService.sendReminderMessage written to the
\* reminder by createReminder
MarkedSentRegardless(reminder, success, day) ==
    [reminder EXCEPT !.whatsappSent = TRUE, !.whatsappSentAt = day]
AfterFirstSend(reminder, success, day) ==
    IF success
    THEN [reminder EXCEPT !.whatsappSent = TRUE, !.whatsappSentAt = day]
    ELSE [reminder EXCEPT !.whatsappError = SendError]

\* the outcome written by updateReminder and sendWhatsAppReminder
AfterSend(reminder, success, day) ==
    IF success
    THEN [reminder EXCEPT !.whatsappSent = TRUE, !.whatsappSentAt = day,
                          !.whatsappError = ""]
    ELSE [reminder EXCEPT !.whatsappError = SendError]

\* the customer fields createReminder and updateReminder copy
CustomerFields(customerId) ==
    [customer |-> customerId,
     customerWhatsappNumber |-> Customers[customerId].whatsappNumber]
NoCustomerFields == [customer |-> "", customerWhatsappNumber |-> ""]

\* one more call of whatsappService.sendReminderMessage for the reminder,
\* with the number it is given
Sending(reminder) ==
    [sends EXCEPT ![reminder.id] = Append(@, reminder.customerWhatsappNumber)]

CreateReminder(body, success) ==
    /\ nextRid <= MaxReminderId
    /\ LET whatsapp == Get(body, "whatsapp", FALSE)
           customerId == Get(body, "customerId", "")
       IN  IF ~Has(body, "purpose")
           THEN /\ rresp' = [op |-> "create", id |-> 0, status |-> 400]
                /\ UNCHANGED <<reminders, nextRid, sends>>
           ELSE IF \/ customerId # "" /\ whatsapp /\ ~CustomerExists(customerId)
                   \/ /\ customerId # "" /\ whatsapp
                      /\ CustomerExists(customerId)
                      /\ Customers[customerId].whatsappNumber = ""
                   \/ whatsapp /\ customerId = ""
           THEN /\ rresp' = [op |-> "create", id |-> 0, status |-> 400]
                /\ UNCHANGED <<reminders, nextRid, sends>>
           ELSE LET customerFields ==
                        IF customerId # "" /\ whatsapp
                        THEN CustomerFields(customerId)
                        ELSE NoCustomerFields
                    doc ==
                        [id |-> nextRid,
                         purpose |-> body.purpose,
                         whatsapp |-> whatsapp,
                         whatsappSent |-> FALSE,
                         whatsappSentAt |-> 0,
                         whatsappError |-> "",
                         customer |-> customerFields.customer,
                         customerWhatsappNumber |->
                             customerFields.customerWhatsappNumber]
                IN  /\ IF whatsapp /\ doc.customerWhatsappNumber # ""
                       THEN /\ reminders' =
                                   reminders
                                       \cup {AfterFirstSend(doc, success, today)}
                            /\ sends' = Sending(doc)
                       ELSE /\ reminders' = reminders \cup {doc}
                            /\ UNCHANGED sends
                    /\ nextRid' = nextRid + 1
                    /\ rresp' = [op |-> "create", id |-> doc.id, status |-> 201]
    /\ UNCHANGED exceptReminderVars

\* reminder.whatsapp && reminder.customerWhatsappNumber &&
\* !reminder.whatsappSent
SendsAgain(reminder) ==
    reminder.whatsapp /\ reminder.customerWhatsappNumber # ""
SendsOnUpdate(reminder) ==
    /\ reminder.whatsapp
    /\ reminder.customerWhatsappNumber # ""
    /\ ~reminder.whatsappSent

\* the updates object of updateReminder for a customer that is found
ReminderUpdates(body) ==
    LET copied == [k \in DOMAIN body \cap {"purpose", "whatsapp"} |-> body[k]]
        customerFields ==
            IF body.customerId # "" THEN CustomerFields(body.customerId)
            ELSE NoCustomerFields
    IN  IF ~Has(body, "customerId") THEN copied
        ELSE [k \in DOMAIN copied \cup DOMAIN customerFields |->
                 IF k \in DOMAIN copied THEN copied[k] ELSE customerFields[k]]

UpdateReminder(id, body, success) ==
    /\ Len(sends[id]) < MaxSends
    /\ IF ReminderById(id) = {}
       THEN /\ rresp' = [op |-> "update", id |-> id, status |-> 404]
            /\ UNCHANGED <<reminders, sends>>
       ELSE IF \/ Has(body, "purpose") /\ body.purpose = ""
               \/ /\ Has(body, "customerId")
                  /\ body.customerId # ""
                  /\ ~CustomerExists(body.customerId)
       THEN /\ rresp' = [op |-> "update", id |-> id, status |-> 400]
            /\ UNCHANGED <<reminders, sends>>
       ELSE LET saved == Assign(TheReminder(id), ReminderUpdates(body))
            IN  /\ IF SendsOnUpdate(saved)
                   THEN /\ reminders' =
                               (reminders \ ReminderById(id))
                                   \cup {AfterSend(saved, success, today)}
                        /\ sends' = Sending(saved)
                   ELSE /\ reminders' =
                               (reminders \ ReminderById(id)) \cup {saved}
                        /\ UNCHANGED sends
                /\ rresp' = [op |-> "update", id |-> id, status |-> 200]
    /\ UNCHANGED nextRid
    /\ UNCHANGED exceptReminderVars

SendWhatsAppReminder(id, success) ==
    /\ Len(sends[id]) < MaxSends
    /\ IF ReminderById(id) = {}
       THEN /\ rresp' = [op |-> "send", id |-> id, status |-> 404]
            /\ UNCHANGED <<reminders, sends>>
       ELSE IF \/ ~TheReminder(id).whatsapp
               \/ TheReminder(id).customerWhatsappNumber = ""
       THEN /\ rresp' = [op |-> "send", id |-> id, status |-> 400]
            /\ UNCHANGED <<reminders, sends>>
       ELSE /\ reminders' =
                   (reminders \ ReminderById(id))
                       \cup {AfterSend(TheReminder(id), success, today)}
            /\ sends' = Sending(TheReminder(id))
            /\ rresp' = [op |-> "send", id |-> id,
                         status |-> IF success THEN 200 ELSE 500]
    /\ UNCHANGED nextRid
    /\ UNCHANGED exceptReminderVars

DeleteReminder(id) ==
    /\ IF ReminderById(id) = {}
       THEN /\ rresp' = [op |-> "delete", id |-> id, status |-> 404]
            /\ UNCHANGED reminders
       ELSE /\ reminders' = reminders \ ReminderById(id)
            /\ rresp' = [op |-> "delete", id |-> id, status |-> 200]
    /\ UNCHANGED <<nextRid, sends>>
    /\ UNCHANGED exceptReminderVars

NoReminders ==
    /\ reminders = {}
    /\ nextRid = 1
    /\ sends = [id \in ReminderIds |-> <<>>]
    /\ rresp = NoRresp

NoStoredCustomers ==
    /\ storedCustomers = {}
    /\ nextCustId = 1
    /\ xresp = [op |-> "none", id |-> 0, status |-> 0]

NoPickupAssigns ==
    /\ pickupAssigns = {}
    /\ nextPaId = 1
    /\ aresp = [op |-> "none", id |-> 0, status |-> 0, lrNumber |-> ""]

-----------------------------------------------------------------------------
(* Specifications *)

InitContainers ==
    /\ NoContainers
    /\ NoBookings
    /\ NoPackingLists
    /\ NoBundleRequests
    /\ NoPriceListings
    /\ NoReminders
    /\ NoStoredCustomers
    /\ NoPickupAssigns

\* container requests served one at a time: creates, updates and deletes
\* with every body, on one day
NextContainer ==
    \/ \E r \in CSlots, body \in CreateContainerBodies :
           NoContainerRequestInFlight /\ StartCreateContainer(r, body)
    \/ \E r \in CSlots : SaveContainer(r)
    \/ \E id \in ContainerIds, body \in UpdateContainerBodies :
           NoContainerRequestInFlight /\ UpdateContainer(id, body)
    \/ \E id \in ContainerIds : NoContainerRequestInFlight /\ DeleteContainer(id)

SpecContainer == InitContainers /\ [][NextContainer]_vars

\* container requests served one at a time: creates and deletes over
\* several days
NextContainerCode ==
    \/ \E r \in CSlots, body \in CodeScenarioBodies :
           NoContainerRequestInFlight /\ StartCreateContainer(r, body)
    \/ \E r \in CSlots : SaveContainer(r)
    \/ \E id \in ContainerIds : NoContainerRequestInFlight /\ DeleteContainer(id)
    \/ NoContainerRequestInFlight /\ NextDay

SpecContainerCode == InitContainers /\ [][NextContainerCode]_vars

\* booking requests served one at a time, on a store that starts empty
InitBookings ==
    /\ NoContainers
    /\ NoBookings
    /\ NoPackingLists
    /\ NoBundleRequests
    /\ NoPriceListings
    /\ NoReminders
    /\ NoStoredCustomers
    /\ NoPickupAssigns

NextBooking ==
    \/ \E r \in SerialSlots, body \in CreateBookingBodies :
           NoBookingRequestInFlight /\ StartCreateBooking(r, body)
    \/ \E r \in SerialSlots : GenerateBookingCode(r)
    \/ \E r \in SerialSlots : InsertBooking(r)
    \/ \E id \in BookingIds, body \in UpdateBookingDateBodies :
           NoBookingRequestInFlight /\ UpdateBooking(id, body)
    \/ \E id \in BookingIds : NoBookingRequestInFlight /\ DeleteBooking(id)

SpecBooking == InitBookings /\ [][NextBooking]_vars

\* createBooking requests that overlap, on a store that starts empty
NextBookingOverlap ==
    \/ \E r \in BSlots, body \in ScenarioBookingBodies : StartCreateBooking(r, body)
    \/ \E r \in BSlots : ProbeBookingCode(r)
    \/ \E r \in BSlots : InsertBooking(r)
    \/ \E id \in BookingIds : DeleteBooking(id)

SpecBookingOverlap == InitBookings /\ [][NextBookingOverlap]_vars

\* createBooking requests served one at a time, on a store that starts empty
\* or holds all MaxSequence sequence codes of one sender, receiver and date
SeededBookings ==
    {BookingData(n, BaseBooking,
                 BookingCodeOf(Customers[BaseBooking.sender].name,
                               Customers[BaseBooking.receiver].name,
                               BaseBooking.date, SeqStr(n))) : n \in 1 .. MaxSequence}

InitBookingsSeeded ==
    /\ NoContainers
    /\ NoPackingLists
    /\ NoBundleRequests
    /\ NoPriceListings
    /\ NoReminders
    /\ NoStoredCustomers
    /\ NoPickupAssigns
    /\ breq = [r \in BSlots |-> IdleBreq]
    /\ bresp = NoBresp
    /\ \/ bookings = {} /\ nextBid = 1
       \/ bookings = SeededBookings /\ nextBid = MaxSequence + 1

NextBookingSeeded ==
    \/ \E r \in SerialSlots, body \in ScenarioBookingBodies :
           NoBookingRequestInFlight /\ StartCreateBooking(r, body)
    \/ \E r \in SerialSlots : GenerateBookingCode(r)
    \/ \E r \in SerialSlots : InsertBooking(r)
    \/ \E id \in BookingIds : NoBookingRequestInFlight /\ DeleteBooking(id)

SpecBookingSeeded == InitBookingsSeeded /\ [][NextBookingSeeded]_vars

\* req.body of PUT /bookings/:id: one body per kind of edit, an unknown
\* sender, and one that carries a bookingCode next to a bundle count
CodeUpdateBookingBodies ==
    [status : {"success"}]
    \cup [sender : {"cZ"}]
    \cup [date : {Jan20}]
    \cup [bundleCount : {1}]
    \cup [bookingCode : {<<"X">>}, bundleCount : {7}]
    \cup [bookingCode : {<<"Y">>}]
    \cup [receiverBranch : {"Annex"}]
    \cup [receiver : {"cB"}, receiverBranch : {"Annex"}]

\* booking requests served one at a time
NextBookingUpdate ==
    \/ \E r \in SerialSlots, body \in ScenarioBookingBodies :
           NoBookingRequestInFlight /\ StartCreateBooking(r, body)
    \/ \E r \in SerialSlots : GenerateBookingCode(r)
    \/ \E r \in SerialSlots : InsertBooking(r)
    \/ \E id \in BookingIds, body \in CodeUpdateBookingBodies :
           NoBookingRequestInFlight /\ UpdateBooking(id, body)

SpecBookingUpdate == InitBookings /\ [][NextBookingUpdate]_vars

\* the bookings the packing-list requests refer to
TwoBookings ==
    {BookingData(n, BaseBooking,
                 BookingCodeOf(Customers[BaseBooking.sender].name,
                               Customers[BaseBooking.receiver].name,
                               BaseBooking.date, SeqStr(n))) : n \in BookingIds}

InitPacking ==
    /\ NoContainers
    /\ bookings = TwoBookings
    /\ nextBid = MaxBookingId + 1
    /\ breq = [r \in BSlots |-> IdleBreq]
    /\ bresp = NoBresp
    /\ NoPackingLists
    /\ NoBundleRequests
    /\ NoPriceListings
    /\ NoReminders
    /\ NoStoredCustomers
    /\ NoPickupAssigns

\* packing-list requests served one at a time
NextPacking ==
    \/ \E body \in CreatePackingListBodies :
           NoPackingRequestInFlight /\ StartCreatePackingList("p1", body)
    \/ PreSavePackingList("p1")
    \/ InsertPackingList("p1")
    \/ CreatePackingListBundles("p1")
    \/ \E id \in PackingIds, body \in UpdatePackingListBodies :
           NoPackingRequestInFlight /\ UpdatePackingList(id, body)
    \/ \E id \in PackingIds : NoPackingRequestInFlight /\ DeletePackingList(id)

SpecPacking == InitPacking /\ [][NextPacking]_vars

\* createPackingList requests that overlap
NextPackingOverlap ==
    \/ \E r \in PSlots, body \in ScenarioPackingListBodies :
           StartCreatePackingList(r, body)
    \/ \E r \in PSlots : PreSavePackingList(r)
    \/ \E r \in PSlots : InsertPackingList(r)
    \/ \E r \in PSlots : CreatePackingListBundles(r)

SpecPackingOverlap == InitPacking /\ [][NextPackingOverlap]_vars

\* the state after one createPackingList for the first booking
FirstPackingList ==
    [PackingListData(1, BasePackingList) EXCEPT
        !.count = 1,
        !.packingListCode = PackingListCodeOf({}, today),
        !.boxNumber = PackingListCodeOf({}, today)]

InitBundles ==
    /\ NoContainers
    /\ bookings = TwoBookings
    /\ nextBid = MaxBookingId + 1
    /\ breq = [r \in BSlots |-> IdleBreq]
    /\ bresp = NoBresp
    /\ packingLists = {FirstPackingList}
    /\ bundles = {}
    /\ nextPid = 2
    /\ nextBundleId = 1
    /\ preq = [r \in PSlots |-> IdlePreq]
    /\ presp = [op |-> "create", id |-> 1, status |-> 201]
    /\ NoBundleRequests
    /\ NoPriceListings
    /\ NoReminders
    /\ NoStoredCustomers
    /\ NoPickupAssigns

\* the packing-list bodies used next to the bundle requests
BundlePackingListBodies ==
    {Put([BasePackingList EXCEPT !.bookingReference = 2], "bundles",
         <<Bundle1, Bundle1>>)}
BundlePackingListUpdates == [bundles : {<<Bundle1, Bundle1>>}]

\* the bundle bodies used where requests overlap
ScenarioCreateBundleBodies ==
    [packingListId : PackingIds, bundleNumber : {"1"}, quantity : {4},
     status : {"completed"}]
ScenarioUpdateBundleBodies == [packingListId : PackingIds]
ScenarioReadyToShipBodies == [bundleNumber : {"2"}]

\* bundle and ready-to-ship requests that overlap each other and the
\* packing-list requests
NextBundle ==
    \/ \E body \in BundlePackingListBodies :
           NoPackingRequestInFlight /\ StartCreatePackingList("p1", body)
    \/ PreSavePackingList("p1")
    \/ InsertPackingList("p1")
    \/ CreatePackingListBundles("p1")
    \/ \E id \in PackingIds, body \in BundlePackingListUpdates :
           NoPackingRequestInFlight /\ UpdatePackingList(id, body)
    \/ \E r \in USlots, body \in ScenarioCreateBundleBodies :
           StartCreateBundle(r, body)
    \/ \E r \in USlots : InsertBundle(r)
    \/ \E id \in BundleIds, body \in ScenarioUpdateBundleBodies :
           StartUpdateBundle("u1", id, body)
    \/ \E id \in BundleIds, body \in ScenarioReadyToShipBodies :
           StartUpdateReadyToShip("u2", id, body)
    \/ \E r \in USlots : SaveBundle(r)

SpecBundle == InitBundles /\ [][NextBundle]_vars

\* the bundle bodies of the ready-to-ship requests' packing list
ShippingCreateBundleBodies ==
    {b \in CreateBundleBodies : b.packingListId = 1 /\ b.bundleNumber = "1"}
ShippingUpdateBundleBodies ==
    {b \in UpdateBundleBodies : ~Has(b, "packingListId")}

\* ready-to-ship and bundle requests served one at a time
NextReadyToShip ==
    \/ NoPackingRequestInFlight /\ NoBundleRequestInFlight
           /\ StartCreatePackingList("p1", BasePackingList)
    \/ PreSavePackingList("p1")
    \/ InsertPackingList("p1")
    \/ \E body \in ShippingCreateBundleBodies :
           NoBundleRequestInFlight /\ StartCreateBundle("u1", body)
    \/ InsertBundle("u1")
    \/ \E id \in BundleIds, body \in ShippingUpdateBundleBodies :
           NoBundleRequestInFlight /\ StartUpdateBundle("u1", id, body)
    \/ \E id \in BundleIds, body \in ReadyToShipBodies :
           NoBundleRequestInFlight /\ StartUpdateReadyToShip("u1", id, body)
    \/ SaveBundle("u1")
    \/ \E id \in BundleIds : NoBundleRequestInFlight /\ GetReadyToShipBundle(id)

SpecReadyToShip == InitPacking /\ [][NextReadyToShip]_vars

\* the ready-to-ship bodies used where two updates of one bundle overlap
OverlapReadyToShipBodies ==
    {b \in ReadyToShipBodies :
        /\ Has(b, "readyToShipStatus")
        /\ b.readyToShipStatus # "dispatched"
        /\ Get(b, "container", "c1") = "c1"}

\* updateReadyToShipBundle requests that overlap
NextReadyToShipOverlap ==
    \/ NoPackingRequestInFlight /\ StartCreatePackingList("p1", BasePackingList)
    \/ PreSavePackingList("p1")
    \/ InsertPackingList("p1")
    \/ \E body \in ShippingCreateBundleBodies :
           NoBundleRequestInFlight /\ StartCreateBundle("u1", body)
    \/ InsertBundle("u1")
    \/ \E r \in USlots, id \in BundleIds, body \in OverlapReadyToShipBodies :
           StartUpdateReadyToShip(r, id, body)
    \/ \E r \in USlots : SaveBundle(r)
    \/ \E id \in BundleIds : DeleteBundle(id)

SpecReadyToShipOverlap == InitPacking /\ [][NextReadyToShipOverlap]_vars

InitQuiet ==
    /\ NoContainers
    /\ NoBookings
    /\ NoPackingLists
    /\ NoBundleRequests
    /\ NoPriceListings
    /\ NoReminders
    /\ NoStoredCustomers
    /\ NoPickupAssigns

\* delivery-partner and price-listing requests served one at a time
NextPriceListing ==
    \/ \E body \in CreateDeliveryPartnerBodies : CreateDeliveryPartner(body)
    \/ \E id \in PartnerIds, body \in UpdateDeliveryPartnerBodies :
           UpdateDeliveryPartner(id, body)
    \/ \E id \in PartnerIds : DeleteDeliveryPartner(id)
    \/ \E body \in CreatePriceListingBodies : CreatePriceListing(body)
    \/ \E id \in ListingIds, body \in UpdatePriceListingBodies :
           UpdatePriceListing(id, body)
    \/ \E id \in ListingIds : DeletePriceListing(id)

SpecPriceListing == InitQuiet /\ [][NextPriceListing]_vars

\* reminder requests served one at a time; a send succeeds or fails
NextReminder ==
    \/ \E body \in CreateReminderBodies, success \in BOOLEAN :
           CreateReminder(body, success)
    \/ \E id \in ReminderIds, body \in UpdateReminderBodies,
          success \in BOOLEAN :
           UpdateReminder(id, body, success)
    \/ \E id \in ReminderIds, success \in BOOLEAN :
           SendWhatsAppReminder(id, success)
    \/ \E id \in ReminderIds : DeleteReminder(id)

SpecReminder == InitQuiet /\ [][NextReminder]_vars

-----------------------------------------------------------------------------
(* Containers: properties *)

BalanceTouched(body) == Has(body, "bookingCharge") \/ Has(body, "advancePayment")

\* C1: after an accepted createContainer, and after an accepted
\* updateContainer whose body carries bookingCharge and/or advancePayment,
\* the stored balanceAmount is the effective bookingCharge minus the
\* effective advancePayment (a field the body omits keeps its stored value,
\* so the effective pair is the stored pair after the update).
C1_BalanceFollowsInputs ==
    /\ (cresp.op = "create" /\ cresp.status = 201) =>
           \A c \in ContainerById(cresp.id) :
               c.balanceAmount =
                   cresp.body.bookingCharge - Get(cresp.body, "advancePayment", 0)
    /\ (cresp.op = "update" /\ cresp.status = 200 /\ BalanceTouched(cresp.body)) =>
           \A c \in ContainerById(cresp.id) :
               /\ c.bookingCharge = Get(cresp.body, "bookingCharge", c.bookingCharge)
               /\ c.advancePayment = Get(cresp.body, "advancePayment", c.advancePayment)
               /\ c.balanceAmount = c.bookingCharge - c.advancePayment

\* C6: createContainer answers a containerCode collision with a client error
\* only after 5 generate-and-insert attempts; one collision alone does not
\* fail the request.
C6_FailsOnlyAfterFiveAttempts ==
    (cresp.op = "create" /\ cresp.status = 400) => cresp.attempts >= 5

\* the highest numeric suffix among the stored codes with the given prefix
HighestSuffix(stored, prefix) ==
    LET suffixes == {ParseInt(SliceLast(c.containerCode, 4)) :
                        c \in {d \in stored : StartsWith(d.containerCode, prefix)}}
    IN  IF suffixes = {} THEN 0
        ELSE CHOOSE n \in suffixes : \A m \in suffixes : m <= n

\* C7: generateContainerCode returns CNT + yy + mm + the 4-digit number one
\* above the highest suffix among the stored codes of that year and month
\* (0001 when there is none).
C7_CodeFollowsMonthMaximum ==
    \A r \in CSlots :
        creq[r].pc = "save" =>
            creq[r].containerCode =
                ContainerPrefix(today)
                    \o PadStart(ToString(HighestSuffix(containers,
                                                       ContainerPrefix(today)) + 1),
                                4, "0")

-----------------------------------------------------------------------------
(* Bookings: properties *)

\* the first three alphanumeric characters of a name, upper-cased
FirstThreeUpper(name) ==
    LET alnum == SelectSeq(name, IsAlnum)
    IN  ToUpperCase(SubSeq(alnum, 1, IF Len(alnum) < 3 THEN Len(alnum) ELSE 3))

\* a date as YYYYMMDD
YearMonthDay(date) ==
    LET civil == CivilFromDays(date.day)
    IN  ToString(civil.year * 10000 + civil.month * 100 + civil.date)

CodeStem(body) ==
    FirstThreeUpper(Customers[body.sender].name) \o <<"_">>
        \o FirstThreeUpper(Customers[body.receiver].name) \o <<"_">>
        \o YearMonthDay(body.date) \o <<"_">>

ThreeDigits(n) ==
    <<DigitChars[(n \div 100) + 1], DigitChars[((n \div 10) % 10) + 1],
      DigitChars[(n % 10) + 1]>>

SmallestUnused(stem, stored) ==
    LET unused == {n \in 1 .. MaxSequence :
                       \A b \in stored : b.bookingCode # stem \o ThreeDigits(n)}
    IN  IF unused = {} THEN 0
        ELSE CHOOSE n \in unused : \A m \in unused : n <= m

AcmGlo001 ==
    <<"A", "C", "M", "_", "G", "L", "O", "_",
      "2", "0", "2", "4", "0", "1", "1", "0", "_", "0", "0", "1">>
AcmGlo002 ==
    <<"A", "C", "M", "_", "G", "L", "O", "_",
      "2", "0", "2", "4", "0", "1", "1", "0", "_", "0", "0", "2">>

\* C2: the booking a createBooking request stores carries the code
\* S_R_D_NNN, S and R the first three alphanumeric characters of the sender's
\* and receiver's names upper-cased, D the booking date as YYYYMMDD, NNN the
\* smallest sequence number of 1..999 whose code no stored booking holds
\* (ACM_GLO_20240110_001 for the first booking of the scenario), and the
\* status pending when the request supplies none
C2_CodeAndStatusOnCreate ==
    [][\A r \in SerialSlots :
           (breq[r].pc = "insert" /\ bookings' # bookings) =>
               LET body == breq[r].body
                   stem == CodeStem(body)
                   nnn == SmallestUnused(stem, bookings)
               IN  \E b \in bookings' \ bookings :
                       /\ bookings' = bookings \cup {b}
                       /\ nnn \in 1 .. MaxSequence
                       /\ b.bookingCode = stem \o ThreeDigits(nnn)
                       /\ (\A x \in bookings :
                               SubSeq(x.bookingCode, 1, Len(stem)) # stem)
                              => nnn = 1
                       /\ (body = BaseBooking /\ bookings = {})
                              => b.bookingCode = AcmGlo001
                       /\ ~Has(body, "status") => b.status = "pending"]_vars

C2_SecondBookingOfTheDay ==
    /\ bresp.op = "create" /\ bresp.status = 201
    /\ \E a, b \in bookings :
           /\ a.bookingCode = AcmGlo001
           /\ b.bookingCode = AcmGlo002
           /\ b.id = bresp.id
           /\ b.status = "pending"

\* C3 (as stated): the code generateBookingCode returns, the fallback code
\* included, is held by no stored booking
C3_ReturnedCodeUnused ==
    \A r \in SerialSlots :
        breq[r].pc = "insert" =>
            \A b \in bookings : b.bookingCode # breq[r].bookingCode

\* C3 (amended): a sequence code generateBookingCode returns is held by no
\* stored booking; the fallback code is returned without a probe
C3_SequenceCodeUnused ==
    \A r \in SerialSlots :
        (breq[r].pc = "insert" /\ ~breq[r].fallback) =>
            \A b \in bookings : b.bookingCode # breq[r].bookingCode

C3_SecondCodeReturned ==
    \E r \in SerialSlots :
        /\ breq[r].pc = "insert"
        /\ ~breq[r].fallback
        /\ breq[r].bookingCode = AcmGlo002
        /\ \E b \in bookings : b.bookingCode = AcmGlo001

\* the cases C4 names
BreaksCreateRule(body) ==
    \/ body.sender \in DOMAIN Customers
           /\ Customers[body.sender].customerType = "Receiver"
    \/ body.receiver \in DOMAIN Customers
           /\ Customers[body.receiver].customerType = "Sender"
    \/ DateLE(body.expectedReceivingDate, body.date)
    \/ body.bundleCount < 1
    \/ body.pickupPartner \notin {"Self", "Central"} \cup PickupPartners

\* C4: createBooking answers 400 and stores no booking when the sender is a
\* Receiver-type customer, the receiver is a Sender-type customer,
\* expectedReceivingDate <= date, bundleCount < 1, or pickupPartner is
\* neither Self/Central nor an existing pickup partner
C4_CreateRejects ==
    [][\A r \in SerialSlots, body \in CreateBookingBodies :
           (BreaksCreateRule(body) /\ StartCreateBooking(r, body)) =>
               /\ bresp'.op = "create"
               /\ bresp'.status = 400
               /\ bookings' = bookings
               /\ breq'[r].pc = "idle"]_vars

C4_RejectedOnDates ==
    /\ bresp.op = "create"
    /\ bresp.status = 400
    /\ bresp.message = "Expected receiving date must be after booking date"
    /\ bookings # {}

\* C5: every stored booking has expectedReceivingDate strictly after date
C5_ExpectedAfterDate ==
    \A b \in bookings : ~DateLE(b.expectedReceivingDate, b.date)

\* C10: no two stored bookings share a bookingCode; an insert of a code no
\* booking holds stores exactly that booking, and an insert of a held code
\* fails, stores nothing and ends the request without another probe
C10_CodesStayUnique ==
    [][/\ \A a, b \in bookings' : a.bookingCode = b.bookingCode => a = b
       /\ \A r \in BSlots :
              (breq[r].pc = "insert" /\ breq'[r] # breq[r]) =>
                  IF \E b \in bookings : b.bookingCode = breq[r].bookingCode
                  THEN /\ bookings' = bookings
                       /\ bresp'.status \notin {200, 201}
                       /\ breq'[r] = IdleBreq
                  ELSE \E b \in bookings' \ bookings :
                           /\ bookings' = bookings \cup {b}
                           /\ b.bookingCode = breq[r].bookingCode]_vars

C10_LoserOfTheRace ==
    /\ bresp.op = "create"
    /\ bresp.status = 500
    /\ \A r \in BSlots : breq[r] = IdleBreq
    /\ \E b \in bookings : bookings = {b} /\ b.bookingCode = AcmGlo001

\* C20: whatever updateBooking is given, a body that carries bookingCode
\* included, and whatever else happens to a stored booking, its bookingCode
\* stays the one it was stored with at creation.
C20_CodeKept ==
    [][\A b \in bookings, c \in bookings' :
           b.id = c.id => c.bookingCode = b.bookingCode]_vars

\* the update that carried a bookingCode was accepted: its bundleCount is
\* stored and the booking has the code of its creation
C20_UpdatedWithCodeInBody ==
    /\ bresp.op = "update" /\ bresp.status = 200
    /\ \E b \in bookings :
           /\ b.id = bresp.id
           /\ b.bundleCount = 7
           /\ b.bookingCode = AcmGlo001

-----------------------------------------------------------------------------
(* Packing lists: properties *)

ReferencedOnce(stored) ==
    \A p, q \in stored : p.bookingReference = q.bookingReference => p = q

\* a create of this body would give its booking a second packing list
SecondByCreate(body) ==
    /\ BookingById(body.bookingReference) # {}
    /\ \E p \in packingLists : p.bookingReference = body.bookingReference

\* an update of this packing list by this body would give the body's booking
\* a second packing list
SecondByUpdate(id, body) ==
    /\ Has(body, "bookingReference")
    /\ BookingById(body.bookingReference) # {}
    /\ \E p \in packingLists : p.id = id
    /\ \E q \in packingLists :
           q.id # id /\ q.bookingReference = body.bookingReference

\* C8: with requests served one at a time, at most one stored packing list
\* references a booking; a createPackingList, or an updatePackingList that
\* changes bookingReference, that would produce a second one is answered 409
\* and stores nothing
C8_OnePackingListPerBooking ==
    [][/\ ReferencedOnce(packingLists')
       /\ \A body \in CreatePackingListBodies :
              (SecondByCreate(body) /\ StartCreatePackingList("p1", body)) =>
                  /\ presp'.op = "create" /\ presp'.status = 409
                  /\ UNCHANGED <<packingLists, bundles, preq>>
       /\ \A id \in PackingIds, body \in UpdatePackingListBodies :
              (SecondByUpdate(id, body) /\ UpdatePackingList(id, body)) =>
                  /\ presp'.op = "update" /\ presp'.status = 409
                  /\ UNCHANGED <<packingLists, bundles>>]_vars

C8_UpdateRefused ==
    /\ presp.op = "update"
    /\ presp.status = 409
    /\ \E p, q \in packingLists :
           /\ p.id = presp.id
           /\ q.id # p.id
           /\ p.bookingReference # q.bookingReference

\* C9: the insert of a packing list whose packingListCode no stored packing
\* list holds is stored whether or not a stored packing list references the
\* same booking, so two overlapping createPackingList requests that both
\* passed the lookup can both be persisted
C9_InsertIgnoresBookingReference ==
    [][\A r \in PSlots :
           (/\ preq[r].pc = "insert"
            /\ preq'[r] # preq[r]
            /\ \A p \in packingLists :
                   p.packingListCode # preq[r].packingListCode) =>
               \E p \in packingLists' \ packingLists :
                   /\ p.id = preq[r].id
                   /\ p.bookingReference = preq[r].body.bookingReference]_vars

C9_TwoPackingListsOneBooking ==
    /\ \A r \in PSlots : preq[r] = IdlePreq
    /\ presp.status = 201
    /\ \E p, q \in packingLists :
           p.id # q.id /\ p.bookingReference = q.bookingReference

C19_NoRollback ==
    [][\A r \in PSlots :
           (/\ preq[r].pc = "bundles"
            /\ \E i, j \in DOMAIN preq[r].body.bundles :
                   /\ i # j
                   /\ preq[r].body.bundles[i].bundleNumber =
                          preq[r].body.bundles[j].bundleNumber
            /\ CreatePackingListBundles(r)) =>
               /\ presp'.op = "create" /\ presp'.status >= 400
               /\ PackingListById(preq[r].id) # {}
               /\ UNCHANGED packingLists
               /\ bundles \subseteq bundles'
               /\ \A i \in DOMAIN preq[r].body.bundles :
                      \E b \in bundles' :
                          /\ b.packingList = preq[r].id
                          /\ b.bundleNumber =
                                 preq[r].body.bundles[i].bundleNumber]_vars

\* a createPackingList failed and its packing list is stored with a bundle
C19_FailedButStored ==
    /\ presp.op = "create" /\ presp.status = 500
    /\ \E p \in packingLists :
           /\ p.id = presp.id
           /\ p.bundles = {}
           /\ \E b \in bundles : b.packingList = p.id

-----------------------------------------------------------------------------
(* Bundles: properties *)

SharesPair(a, b) ==
    /\ a.id # b.id
    /\ a.packingList = b.packingList
    /\ a.bundleNumber = b.bundleNumber

UniquePairs(stored) == \A a, b \in stored : ~SharesPair(a, b)

\* the bundle a pending save() would leave in the store
BundleToSave(r) ==
    Assign(TheBundle(ureq[r].id),
           [k \in ureq[r].modified |-> ureq[r].body[k]])

\* a packing-list body whose bundles repeat a number or use one that the
\* bundles kept in the packing list already have
ClashesInList(kept, pid, items) ==
    \/ \E i, j \in DOMAIN items :
           i # j /\ items[i].bundleNumber = items[j].bundleNumber
    \/ \E i \in DOMAIN items, b \in kept :
           b.packingList = pid /\ b.bundleNumber = items[i].bundleNumber

\* createBundle, updateBundle and updateReadyToShipBundle: a request whose
\* bundle would share its pair with a stored one fails, bundles unchanged
BundleHandlersRefuse ==
    \A r \in USlots :
        /\ \A body \in ScenarioCreateBundleBodies :
               (/\ StartCreateBundle(r, body)
                /\ \E b \in bundles : b.packingList = body.packingListId
                                      /\ b.bundleNumber = body.bundleNumber)
                   => /\ uresp'.op = "create" /\ uresp'.status = 409
                      /\ UNCHANGED <<bundles, ureq>>
        /\ (/\ InsertBundle(r)
            /\ \E b \in bundles :
                   SharesPair(b, BundleData(nextBundleId, ureq[r].body)))
               => uresp'.status >= 400 /\ UNCHANGED bundles
        /\ (/\ SaveBundle(r)
            /\ BundleById(ureq[r].id) # {}
            /\ \E b \in bundles : SharesPair(b, BundleToSave(r)))
               => uresp'.status >= 400 /\ UNCHANGED bundles

\* the packing-list requests whose bundles would share a pair
ClashingCreate(r) ==
    /\ CreatePackingListBundles(r)
    /\ ClashesInList(bundles, preq[r].id, preq[r].body.bundles)
ClashingUpdate(id, body) ==
    /\ UpdatePackingList(id, body)
    /\ PackingListById(id) # {}
    /\ ClashesInList(bundles \ BundlesOf(bundles, id), id, body.bundles)

\* C12 as stated: in every reachable state, under any interleaving of
\* createBundle, updateBundle, updateReadyToShipBundle, createPackingList
\* and updatePackingList, no two stored bundles share (packingList,
\* bundleNumber), and every request that would create such a pair fails and
\* leaves the stored bundles unchanged.
C12_RefusedAndUnchanged ==
    [][/\ UniquePairs(bundles')
       /\ BundleHandlersRefuse
       /\ \A r \in PSlots :
              ClashingCreate(r) => presp'.status >= 400 /\ UNCHANGED bundles
       /\ \A id \in PackingIds, body \in BundlePackingListUpdates :
              ClashingUpdate(id, body) =>
                  presp'.status >= 400 /\ UNCHANGED bundles]_vars

\* C12, amended: in every reachable state, under any interleaving of the
\* five handlers, no two stored bundles share (packingList, bundleNumber);
\* a createBundle, updateBundle or updateReadyToShipBundle request that
\* would create such a pair fails and leaves the stored bundles unchanged;
\* a createPackingList or updatePackingList request whose bundles would
\* create such a pair fails as well, but the stored bundles need not be
\* what they were before it.
C12_PairsStayUnique ==
    [][/\ UniquePairs(bundles')
       /\ BundleHandlersRefuse
       /\ \A r \in PSlots : ClashingCreate(r) => presp'.status >= 400
       /\ \A id \in PackingIds, body \in BundlePackingListUpdates :
              ClashingUpdate(id, body) => presp'.status >= 400]_vars

\* a renumbering through the ready-to-ship update was refused at save():
\* the bundle keeps its number next to the bundle that holds the other one
C12_RenumberRefused ==
    /\ uresp.op = "shipUpdate" /\ uresp.status = 500
    /\ \E a, b \in bundles :
           /\ a.id = uresp.id /\ a.bundleNumber = "1"
           /\ b.packingList = a.packingList /\ b.bundleNumber = "2"

\* C13: getReadyToShipBundle and updateReadyToShipBundle on a stored bundle
\* whose status is not completed are answered 400, and the rejected update
\* changes no bundle and leaves no save() behind; on a completed bundle the
\* view is answered 200 and the update goes on to save(), where it is
\* answered 200 and written unless it renumbers the bundle onto a stored
\* pair (an invalid container id is the only other rejection).
C13_CompletedOnly ==
    [][\A id \in BundleIds :
           BundleById(id) # {} =>
               /\ GetReadyToShipBundle(id) =>
                      uresp'.status =
                          IF TheBundle(id).status = "completed" THEN 200
                          ELSE 400
               /\ \A body \in ReadyToShipBodies :
                      StartUpdateReadyToShip("u1", id, body) =>
                          IF TheBundle(id).status # "completed"
                          THEN /\ uresp'.op = "shipUpdate"
                               /\ uresp'.status = 400
                               /\ UNCHANGED <<bundles, ureq>>
                          ELSE IF /\ Has(body, "container")
                                  /\ body.container = "zz"
                                  /\ Has(body, "readyToShipStatus")
                                  /\ body.readyToShipStatus # "pending"
                          THEN uresp'.status = 400 /\ UNCHANGED <<bundles, ureq>>
                          ELSE ureq'["u1"].pc = "save" /\ UNCHANGED uresp
               /\ (/\ SaveBundle("u1")
                   /\ ureq["u1"].op = "shipUpdate"
                   /\ ureq["u1"].id = id
                   /\ ~\E b \in bundles : SharesPair(b, BundleToSave("u1")))
                      => /\ uresp'.status = 200
                         /\ bundles' = (bundles \ BundleById(id))
                                           \cup {BundleToSave("u1")}]_vars

\* the update of a pending bundle was rejected and the bundle is as created
C13_PendingRejected ==
    /\ uresp.op = "shipUpdate" /\ uresp.status = 400
    /\ \E b \in bundles :
           /\ b.id = uresp.id
           /\ b.status = "pending"
           /\ b.readyToShipStatus = "pending" /\ b.container = ""

\* C14: in every reachable state a bundle that holds a container reference
\* has readyToShipStatus stuffed or dispatched.
C14_ContainerOnlyWhenShipped ==
    \A b \in bundles :
        b.container # "" => b.readyToShipStatus \in {"stuffed", "dispatched"}

-----------------------------------------------------------------------------
(* Price listings: properties *)

\* the price the delivery partner has now; 0 when none is set
PriceNow(partnerId) ==
    IF partnerId = 0 THEN 0
    ELSE LET d == CHOOSE d \in deliveryPartners : d.id = partnerId IN d.price

NoSuchPartner(partnerId) ==
    partnerId # 0 /\ ~\E d \in deliveryPartners : d.id = partnerId

\* amount and delivery partner of the listing as given, and its totalAmount
\* their sum with the partner's present price
StoredWithTotal(stored, id, amount, partnerId) ==
    \E l \in stored :
        /\ l.id = id
        /\ l.amount = amount
        /\ l.deliveryPartnerId = partnerId
        /\ l.totalAmount = amount + PriceNow(partnerId)

\* C15: after an accepted createPriceListing, and after every accepted
\* updatePriceListing whose body carries amount and/or deliveryPartnerId,
\* the stored totalAmount is the effective amount plus the price the
\* effective delivery partner has at that moment (0 when none is set), a
\* field the body omits taking its stored value; a delivery partner id that
\* no delivery partner has is answered 400 and nothing is stored.
C15_TotalFollowsInputs ==
    [][/\ \A body \in CreatePriceListingBodies :
              CreatePriceListing(body) =>
                  IF NoSuchPartner(Get(body, "deliveryPartnerId", 0))
                  THEN lresp'.status = 400 /\ UNCHANGED priceListings
                  ELSE IF lresp'.status = 201
                  THEN /\ PriceListingById(lresp'.id) = {}
                       /\ StoredWithTotal(priceListings', lresp'.id,
                                          body.amount,
                                          Get(body, "deliveryPartnerId", 0))
                  ELSE UNCHANGED priceListings
       /\ \A id \in ListingIds, body \in UpdatePriceListingBodies :
              (/\ UpdatePriceListing(id, body)
               /\ PriceListingById(id) # {}
               /\ Has(body, "amount") \/ Has(body, "deliveryPartnerId")) =>
                  LET amount == Get(body, "amount", ThePriceListing(id).amount)
                      partnerId ==
                          Get(body, "deliveryPartnerId",
                              ThePriceListing(id).deliveryPartnerId)
                  IN  IF NoSuchPartner(partnerId)
                      THEN lresp'.status = 400 /\ UNCHANGED priceListings
                      ELSE IF lresp'.status = 200
                      THEN StoredWithTotal(priceListings', id, amount,
                                           partnerId)
                      ELSE UNCHANGED priceListings]_vars

\* an update that carried the amount alone: the listing has the new amount
\* and the price of the delivery partner it already had
C15_AmountUpdatedWithPartner ==
    /\ lresp.op = "update" /\ lresp.status = 200
    /\ \E l \in priceListings :
           /\ l.id = lresp.id
           /\ l.amount = 20
           /\ l.deliveryPartnerId # 0
           /\ l.totalAmount = 25

\* the listing's totalAmount is its amount plus the present price of its
\* delivery partner
Refreshed(l) == l.totalAmount = l.amount + PriceNow(l.deliveryPartnerId)

\* updateDeliveryPartner leaves every price listing as it is, and a
\* listing's totalAmount changes only in an updatePriceListing on it
OnlyListingEditsChangeTotal ==
    /\ \A id \in PartnerIds, body \in UpdateDeliveryPartnerBodies :
           UpdateDeliveryPartner(id, body) => UNCHANGED priceListings
    /\ \A l \in priceListings, m \in priceListings' :
           (l.id = m.id /\ l.totalAmount # m.totalAmount) =>
               lresp'.op = "update" /\ lresp'.id = l.id

\* C16 as stated: updateDeliveryPartner changing a price leaves the
\* totalAmount of every price listing unchanged, a listing's totalAmount
\* reflects the new price only after a later updatePriceListing on it, and
\* every accepted edit of the listing refreshes it.
C16_EveryEditRefreshes ==
    [][/\ OnlyListingEditsChangeTotal
       /\ \A id \in ListingIds, body \in UpdatePriceListingBodies :
              (UpdatePriceListing(id, body) /\ lresp'.status = 200) =>
                  \A m \in priceListings' :
                      (m.id = id /\ ~NoSuchPartner(m.deliveryPartnerId)) =>
                          Refreshed(m)]_vars

\* C16, amended: updateDeliveryPartner changing a price leaves the
\* totalAmount of every price listing unchanged; a listing's totalAmount
\* reflects the new price only after a later updatePriceListing on it whose
\* body carries amount and/or deliveryPartnerId, which refreshes it; an
\* edit that carries neither leaves the totalAmount as it was.
C16_RefreshOnAmountOrPartner ==
    [][/\ OnlyListingEditsChangeTotal
       /\ \A id \in ListingIds, body \in UpdatePriceListingBodies :
              (UpdatePriceListing(id, body) /\ lresp'.status = 200) =>
                  \A m \in priceListings' :
                      m.id = id =>
                          IF Has(body, "amount")
                             \/ Has(body, "deliveryPartnerId")
                          THEN Refreshed(m)
                          ELSE m.totalAmount = ThePriceListing(id).totalAmount]_vars

\* a listing was edited after its delivery partner's price changed and
\* still has the total of the former price
C16_EditedNotRefreshed ==
    /\ lresp.op = "update" /\ lresp.status = 200
    /\ \E l \in priceListings :
           /\ l.id = lresp.id
           /\ l.status = "Inactive"
           /\ ~NoSuchPartner(l.deliveryPartnerId)
           /\ ~Refreshed(l)

-----------------------------------------------------------------------------
(* Reminders: properties *)

\* the WhatsApp number of the customer a body selects; "" when it selects
\* none that has one
NumberOf(customerId) ==
    IF customerId \in DOMAIN Customers
    THEN Customers[customerId].whatsappNumber
    ELSE ""

\* the send went out and its outcome is on the stored reminder
OutcomeStored(id, success) ==
    /\ Len(sends'[id]) = Len(sends[id]) + 1
    /\ \E m \in reminders' :
           /\ m.id = id
           /\ m.whatsapp /\ m.customerWhatsappNumber # ""
           /\ IF success
              THEN m.whatsappSent /\ m.whatsappSentAt # 0
              ELSE ~m.whatsappSent /\ m.whatsappError = SendError

\* C17: a createReminder, and an updateReminder of a reminder not yet sent,
\* with whatsapp enabled and a customer WhatsApp number is answered 201 /
\* 200 with the reminder stored whether the send succeeds or fails; a failed
\* send leaves its error message in whatsappError and whatsappSent false, a
\* successful one sets whatsappSent and whatsappSentAt.
C17_SendOutcomeRecorded ==
    [][\A success \in BOOLEAN :
           /\ \A body \in CreateReminderBodies :
                  (/\ Has(body, "purpose")
                   /\ Get(body, "whatsapp", FALSE)
                   /\ NumberOf(Get(body, "customerId", "")) # ""
                   /\ CreateReminder(body, success)) =>
                      /\ rresp'.op = "create" /\ rresp'.status = 201
                      /\ ReminderById(rresp'.id) = {}
                      /\ OutcomeStored(rresp'.id, success)
           /\ \A id \in ReminderIds, body \in UpdateReminderBodies :
                  (/\ ReminderById(id) # {}
                   /\ ~TheReminder(id).whatsappSent
                   /\ Get(body, "purpose", "x") # ""
                   /\ Get(body, "whatsapp", TheReminder(id).whatsapp)
                   /\ IF Has(body, "customerId")
                      THEN NumberOf(body.customerId) # ""
                      ELSE TheReminder(id).customerWhatsappNumber # ""
                   /\ UpdateReminder(id, body, success)) =>
                      /\ rresp'.op = "update" /\ rresp'.status = 200
                      /\ OutcomeStored(id, success)]_vars

\* a reminder was created although its send failed
C17_CreatedAfterFailedSend ==
    /\ rresp.op = "create" /\ rresp.status = 201
    /\ \E m \in reminders :
           /\ m.id = rresp.id
           /\ Len(sends[m.id]) = 1
           /\ ~m.whatsappSent /\ m.whatsappSentAt = 0
           /\ m.whatsappError = SendError

\* C18: a createReminder or updateReminder makes at most one send attempt,
\* for its own reminder; whatsappSent, once true, is never reset; and a
\* reminder whose whatsappSent is true is sent again by sendWhatsAppReminder
\* alone, also after its customer or number changed.
C18_SentOnlyOnce ==
    [][/\ \A id, other \in ReminderIds :
              /\ Len(sends'[id]) <= Len(sends[id]) + 1
              /\ (sends'[id] # sends[id] /\ sends'[other] # sends[other]) =>
                     id = other
              /\ (sends'[id] # sends[id] /\ rresp'.op # "send") =>
                     /\ rresp'.op \in {"create", "update"}
                     /\ rresp'.id = id
       /\ \A m \in reminders :
              m.whatsappSent =>
                  /\ \A n \in reminders' : n.id = m.id => n.whatsappSent
                  /\ sends'[m.id] # sends[m.id] => rresp'.op = "send"]_vars

\* a reminder that was sent to one number and then moved to another
\* customer by updateReminder: nothing went to the new number
C18_MovedAfterSend ==
    /\ rresp.op = "update" /\ rresp.status = 200
    /\ \E m \in reminders :
           /\ m.id = rresp.id
           /\ m.whatsapp /\ m.whatsappSent
           /\ m.customerWhatsappNumber = "+91 2"
           /\ sends[m.id] = <<"+91 1">>

-----------------------------------------------------------------------------
(* Containers: the frame of updateContainer *)

\* C21: an updateContainer whose body carries neither bookingCharge nor
\* advancePayment leaves the stored balanceAmount, bookingCharge and
\* advancePayment of its container as they were, whatever else the body
\* carries.
C21_MoneyFieldsKept ==
    [][\A c \in containers, d \in containers' :
           (/\ cresp'.op = "update"
            /\ ~BalanceTouched(cresp'.body)
            /\ cresp'.id = c.id
            /\ d.id = c.id)
           => /\ d.balanceAmount = c.balanceAmount
              /\ d.bookingCharge = c.bookingCharge
              /\ d.advancePayment = c.advancePayment]_vars

-----------------------------------------------------------------------------
(* Customers: createCustomer, updateCustomer, deleteCustomer *)

MaxCustomerId == 2         \* createCustomer requests that reach the store

StoredCustomerIds == 1 .. MaxCustomerId

\* an absent optional path of a document, and the values the bodies carry
Absent == <<>>
Bank == <<"HDFC">>
MainBranch == <<"Main">>
OnePayment == <<"cash">>

\* req.body of POST /customers
CreateCustomerBodies ==
    [customerType : {"Sender", "Receiver", "Agent"}, name : {"Acme"}]
    \cup [customerType : {"Sender", "Receiver"}, name : {"Acme"},
          accountDetails : {Bank}, branches : {MainBranch}]
    \cup [customerType : {"Sender", "Receiver"}, name : {"Acme"},
          credit : {50}, discount : {10}, paymentHistory : {OnePayment}]
    \cup [customerType : {"Receiver"}, name : {"Acme"}, discount : {150}]
    \cup [customerType : {"Sender"}]

\* req.body of PUT /customers/:id
UpdateCustomerBodies ==
    [customerType : {"Sender", "Receiver"}]
    \cup [name : {"Beta"}]
    \cup [accountDetails : {Bank}]
    \cup [branches : {MainBranch}]
    \cup [credit : {50}]
    \cup [discount : {10, 150}]
    \cup [paymentHistory : {OnePayment}]

StoredCustomerById(id) == {c \in storedCustomers : c.id = id}
TheStoredCustomer(id) == CHOOSE c \in storedCustomers : c.id = id

\* a new Customer document before customerData is applied: the schema's
\* defaults (credit 0, empty arrays) and the optional paths unset
NewCustomer(id) ==
    [id |-> id, customerType |-> "", name |-> "", accountDetails |-> Absent,
     branches |-> <<>>, credit |-> 0, discount |-> Absent,
     paymentHistory |-> <<>>]

\* the schema's validators: the customerType enum, the required name and
\* the range of discount
CustomerSchemaValid(doc) ==
    /\ doc.customerType \in {"Sender", "Receiver"}
    /\ doc.name # ""
    /\ doc.discount # Absent => doc.discount[1] >= 0 /\ doc.discount[1] <= 100

\* the fields createCustomer takes for a Sender, and those for a Receiver
SenderFields == {"accountDetails"}
ReceiverFields == {"branches", "credit", "discount", "paymentHistory"}

\* Number(discount) kept as the optional path it fills
CustomerValue(body, k) == IF k = "discount" THEN <<body[k]>> ELSE body[k]

\* customerData of createCustomer: the fields of the body's own type only
CustomerData(body) ==
    LET own == IF body.customerType = "Sender" THEN SenderFields
               ELSE ReceiverFields
    IN  [k \in DOMAIN body \cap ({"customerType", "name"} \cup own) |->
            CustomerValue(body, k)]

CreateCustomer(body) ==
    /\ nextCustId <= MaxCustomerId
    /\ IF \/ ~Has(body, "customerType") \/ ~Has(body, "name")
          \/ body.customerType \notin {"Sender", "Receiver"}
       THEN /\ xresp' = [op |-> "create", id |-> 0, status |-> 400]
            /\ UNCHANGED <<storedCustomers, nextCustId>>
       ELSE LET doc == Assign(NewCustomer(nextCustId), CustomerData(body))
            IN  IF ~CustomerSchemaValid(doc)
                THEN /\ xresp' = [op |-> "create", id |-> 0, status |-> 400]
                     /\ UNCHANGED <<storedCustomers, nextCustId>>
                ELSE /\ storedCustomers' = storedCustomers \cup {doc}
                     /\ nextCustId' = nextCustId + 1
                     /\ xresp' = [op |-> "create", id |-> doc.id,
                                  status |-> 201]
    /\ UNCHANGED exceptCustomerVars

\* the updates object of updateCustomer: every field the body defines
CustomerUpdates(body) ==
    [k \in DOMAIN body \cap
              ({"customerType", "name"} \cup SenderFields \cup ReceiverFields)
        |-> CustomerValue(body, k)]

UpdateCustomer(id, body) ==
    /\ IF StoredCustomerById(id) = {}
       THEN /\ xresp' = [op |-> "update", id |-> id, status |-> 404]
            /\ UNCHANGED storedCustomers
       ELSE LET doc == Assign(TheStoredCustomer(id), CustomerUpdates(body))
            IN  IF ~CustomerSchemaValid(doc)
                THEN /\ xresp' = [op |-> "update", id |-> id, status |-> 500]
                     /\ UNCHANGED storedCustomers
                ELSE /\ storedCustomers' =
                            (storedCustomers \ StoredCustomerById(id))
                                \cup {doc}
                     /\ xresp' = [op |-> "update", id |-> id, status |-> 200]
    /\ UNCHANGED nextCustId
    /\ UNCHANGED exceptCustomerVars

DeleteCustomer(id) ==
    /\ IF StoredCustomerById(id) = {}
       THEN /\ xresp' = [op |-> "delete", id |-> id, status |-> 404]
            /\ UNCHANGED storedCustomers
       ELSE /\ storedCustomers' = storedCustomers \ StoredCustomerById(id)
            /\ xresp' = [op |-> "delete", id |-> id, status |-> 200]
    /\ UNCHANGED nextCustId
    /\ UNCHANGED exceptCustomerVars

NextCustomer ==
    \/ \E body \in CreateCustomerBodies : CreateCustomer(body)
    \/ \E id \in StoredCustomerIds, body \in UpdateCustomerBodies :
           UpdateCustomer(id, body)
    \/ \E id \in StoredCustomerIds : DeleteCustomer(id)

SpecCustomer == InitQuiet /\ [][NextCustomer]_vars

\* C22: no stored Sender has a Receiver-only field populated (branches,
\* paymentHistory, credit, discount) and no stored Receiver has the
\* Sender-only accountDetails populated.
C22_TypeSplitKept ==
    \A c \in storedCustomers :
        /\ c.customerType = "Sender" =>
               /\ c.branches = <<>> /\ c.paymentHistory = <<>>
               /\ c.credit = 0 /\ c.discount = Absent
        /\ c.customerType = "Receiver" => c.accountDetails = Absent

-----------------------------------------------------------------------------
(* Bookings: the receiverBranch of updateBooking *)

\* the receiver the booking has once the body is applied
EffectiveReceiver(id, body) == Get(body, "receiver", TheBooking(id).receiver)

\* the body names a branch that the effective receiver, who has branches,
\* does not have
UnknownBranch(id, body) ==
    /\ Has(body, "receiverBranch")
    /\ CustomerExists(EffectiveReceiver(id, body))
    /\ Customers[EffectiveReceiver(id, body)].branches # {}
    /\ body.receiverBranch
           \notin Customers[EffectiveReceiver(id, body)].branches

\* C23: updateBooking answers 400 and changes nothing when the body's
\* receiverBranch is not a branch of the booking's effective receiver (who
\* has branches), also when the body carries receiverBranch without receiver.
C23_UnknownBranchRejected ==
    [][\A id \in BookingIds, body \in CodeUpdateBookingBodies :
           (/\ BookingById(id) # {}
            /\ NoBookingRequestInFlight
            /\ UnknownBranch(id, body)
            /\ UpdateBooking(id, body))
           => bresp'.status = 400 /\ bookings' = bookings]_vars

-----------------------------------------------------------------------------
(* Bookings: the budget of generateBookingCode *)

\* the last six decimal digits of a timestamp, digit by digit
LastSixDigits(now) ==
    [i \in 1 .. 6 |->
        DigitChars[((now.low \div (10 ^ (6 - i))) % 10) + 1]]

\* every one of the sequence codes of the request's stem is stored
AllSequenceCodesTaken(body) ==
    \A n \in 1 .. MaxSequence :
        BookingCodeExists(bookings, CodeStem(body) \o SeqStr(n))

\* C24: generateBookingCode returns a code after at most 999 probes and
\* raises nothing: a sequence code after as many probes as its number, or,
\* with all 999 sequence codes taken, after 999 probes the stem followed by
\* the last six digits of the timestamp, which is not probed.
C24_ReturnsWithinBudget ==
    \A r \in BSlots :
        breq[r].pc = "insert" =>
            /\ breq[r].sequence \in 1 .. MaxSequence + 1
            /\ ~breq[r].fallback =>
                   /\ breq[r].sequence <= MaxSequence
                   /\ breq[r].bookingCode =
                          CodeStem(breq[r].body) \o SeqStr(breq[r].sequence)
            /\ breq[r].fallback =>
                   /\ breq[r].sequence = MaxSequence + 1
                   /\ AllSequenceCodesTaken(breq[r].body)
                   /\ \E now \in Clock :
                          breq[r].bookingCode =
                              CodeStem(breq[r].body) \o LastSixDigits(now)

\* all 999 sequence codes are taken and the fallback code is returned,
\* though a stored booking holds it
C24_FallbackNotProbed ==
    \E r \in BSlots :
        /\ breq[r].pc = "insert"
        /\ breq[r].fallback
        /\ BookingCodeExists(bookings, breq[r].bookingCode)

-----------------------------------------------------------------------------
(* Pickup assignments: createPickupAssign, updatePickupAssign,
   deletePickupAssign, updateLRStatus *)

MaxPickupAssignId == 2     \* createPickupAssign requests that reach the store

PickupAssignIds == 1 .. MaxPickupAssignId

LRStatuses == {"Collected", "Not Collected"}

\* the entries of lrNumbers in a request body
LREntries ==
    [lrNumber : {"L1", "L2"}]
    \cup [lrNumber : {"L1"}, status : {"Collected", "Lost"}]

\* the lrNumbers arrays of the request bodies
LRLists ==
    {<<>>}
    \cup {<<e>> : e \in LREntries}
    \cup {<<[lrNumber |-> "L1"], e>> : e \in [lrNumber : {"L1", "L2"}]}

\* req.body of POST /pickup-assigns
CreatePickupAssignBodies ==
    [transportPartnerId : {"pp1", "pp9"}, lrNumbers : {<<[lrNumber |-> "L1"]>>}]
    \cup [transportPartnerId : {"pp1"}, lrNumbers : LRLists]
    \cup [transportPartnerId : {"pp1"}]

\* req.body of PUT /pickup-assigns/:id
UpdatePickupAssignBodies ==
    [lrNumbers : LRLists]
    \cup [status : {"Completed"}]
    \cup [transportPartnerId : {"pp9"}]

\* req.body of PATCH /pickup-assigns/:id/lr-status
LRStatusBodies ==
    [lrNumber : {"L1", "L2", "L3"}, status : {"Collected", "Not Collected"}]
    \cup [lrNumber : {"L1"}, status : {"Lost"}]
    \cup [lrNumber : {"L1"}]

PickupAssignById(id) == {a \in pickupAssigns : a.id = id}
ThePickupAssign(id) == CHOOSE a \in pickupAssigns : a.id = id

\* lrNumbers.map(lr => ({ lrNumber, status: lr.status || 'Not Collected' }))
MapLRNumbers(lrNumbers) ==
    [i \in DOMAIN lrNumbers |->
        [lrNumber |-> lrNumbers[i].lrNumber,
         status |-> Get(lrNumbers[i], "status", "Not Collected")]]

\* the schema's validators: at least one LR number, the status enums
PickupAssignSchemaValid(doc) ==
    /\ Len(doc.lrNumbers) > 0
    /\ \A i \in DOMAIN doc.lrNumbers : doc.lrNumbers[i].status \in LRStatuses
    /\ doc.status \in {"Pending", "Completed"}

PickupRespond(op, id, status) ==
    aresp' = [op |-> op, id |-> id, status |-> status, lrNumber |-> ""]

CreatePickupAssign(body) ==
    /\ nextPaId <= MaxPickupAssignId
    /\ IF ~PickupPartnerExists(body.transportPartnerId)
       THEN PickupRespond("create", 0, 404) /\ UNCHANGED <<pickupAssigns, nextPaId>>
       ELSE IF Get(body, "lrNumbers", <<>>) = <<>>
       THEN PickupRespond("create", 0, 400) /\ UNCHANGED <<pickupAssigns, nextPaId>>
       ELSE LET doc == [id |-> nextPaId,
                        transportPartnerId |-> body.transportPartnerId,
                        lrNumbers |-> MapLRNumbers(body.lrNumbers),
                        status |-> Get(body, "status", "Pending")]
            IN  IF ~PickupAssignSchemaValid(doc)
                THEN PickupRespond("create", 0, 500)
                         /\ UNCHANGED <<pickupAssigns, nextPaId>>
                ELSE /\ pickupAssigns' = pickupAssigns \cup {doc}
                     /\ nextPaId' = nextPaId + 1
                     /\ PickupRespond("create", doc.id, 201)
    /\ UNCHANGED exceptPickupVars

\* updateData of updatePickupAssign
PickupAssignUpdateData(body) ==
    [k \in DOMAIN body \cap {"transportPartnerId", "lrNumbers", "status"} |->
        IF k = "lrNumbers" THEN MapLRNumbers(body[k]) ELSE body[k]]

UpdatePickupAssign(id, body) ==
    /\ IF Has(body, "transportPartnerId")
              /\ ~PickupPartnerExists(body.transportPartnerId)
       THEN PickupRespond("update", id, 404) /\ UNCHANGED pickupAssigns
       ELSE IF Has(body, "lrNumbers") /\ body.lrNumbers = <<>>
       THEN PickupRespond("update", id, 400) /\ UNCHANGED pickupAssigns
       ELSE IF PickupAssignById(id) = {}
       THEN PickupRespond("update", id, 404) /\ UNCHANGED pickupAssigns
       ELSE LET doc == Assign(ThePickupAssign(id), PickupAssignUpdateData(body))
            IN  IF ~PickupAssignSchemaValid(doc)
                THEN PickupRespond("update", id, 500) /\ UNCHANGED pickupAssigns
                ELSE /\ pickupAssigns' =
                            (pickupAssigns \ PickupAssignById(id)) \cup {doc}
                     /\ PickupRespond("update", id, 200)
    /\ UNCHANGED nextPaId
    /\ UNCHANGED exceptPickupVars

DeletePickupAssign(id) ==
    /\ IF PickupAssignById(id) = {}
       THEN PickupRespond("delete", id, 404) /\ UNCHANGED pickupAssigns
       ELSE /\ pickupAssigns' = pickupAssigns \ PickupAssignById(id)
            /\ PickupRespond("delete", id, 200)
    /\ UNCHANGED nextPaId
    /\ UNCHANGED exceptPickupVars

\* the entries the filter 'lrNumbers.lrNumber': lrNumber matches
MatchingLR(lrNumbers, lrNumber) ==
    {i \in DOMAIN lrNumbers : lrNumbers[i].lrNumber = lrNumber}

\* $set of 'lrNumbers.$.status': the status of the first matching entry
SetEveryLRStatus(lrNumbers, lrNumber, status) ==
    [i \in DOMAIN lrNumbers |-> [lrNumbers[i] EXCEPT !.status = status]]
SetLRStatus(lrNumbers, lrNumber, status) ==
    LET first == CHOOSE i \in MatchingLR(lrNumbers, lrNumber) :
                     \A j \in MatchingLR(lrNumbers, lrNumber) : i <= j
    IN  [lrNumbers EXCEPT ![first].status = status]

UpdateLRStatus(id, body) ==
    /\ LET respond(status) ==
               aresp' = [op |-> "lrStatus", id |-> id, status |-> status,
                         lrNumber |-> Get(body, "lrNumber", "")]
       IN  IF ~Has(body, "lrNumber") \/ ~Has(body, "status")
           THEN respond(400) /\ UNCHANGED pickupAssigns
           ELSE IF body.status \notin {"Collected", "Not Collected"}
           THEN respond(400) /\ UNCHANGED pickupAssigns
           ELSE IF \/ PickupAssignById(id) = {}
                   \/ MatchingLR(ThePickupAssign(id).lrNumbers,
                                 body.lrNumber) = {}
           THEN respond(404) /\ UNCHANGED pickupAssigns
           ELSE /\ pickupAssigns' =
                       (pickupAssigns \ PickupAssignById(id))
                           \cup {[ThePickupAssign(id) EXCEPT
                                     !.lrNumbers =
                                         SetLRStatus(@, body.lrNumber,
                                                     body.status)]}
                /\ respond(200)
    /\ UNCHANGED nextPaId
    /\ UNCHANGED exceptPickupVars

NextPickupAssign ==
    \/ \E body \in CreatePickupAssignBodies : CreatePickupAssign(body)
    \/ \E id \in PickupAssignIds, body \in UpdatePickupAssignBodies :
           UpdatePickupAssign(id, body)
    \/ \E id \in PickupAssignIds : DeletePickupAssign(id)
    \/ \E id \in PickupAssignIds, body \in LRStatusBodies :
           UpdateLRStatus(id, body)

SpecPickupAssign == InitQuiet /\ [][NextPickupAssign]_vars

\* every stored pickup assignment has an LR number, each with a known status
LRNumbersWellFormed(assigns) ==
    \A a \in assigns :
        /\ Len(a.lrNumbers) >= 1
        /\ \A i \in DOMAIN a.lrNumbers :
               a.lrNumbers[i].status \in {"Collected", "Not Collected"}

\* between two versions of an assignment only the status of entries with
\* the given number differs
OnlyStatusOfChanged(before, after, lrNumber) ==
    /\ Len(after.lrNumbers) = Len(before.lrNumbers)
    /\ \A i \in DOMAIN before.lrNumbers :
           /\ after.lrNumbers[i].lrNumber = before.lrNumbers[i].lrNumber
           /\ before.lrNumbers[i].lrNumber # lrNumber =>
                  after.lrNumbers[i] = before.lrNumbers[i]
    /\ [after EXCEPT !.lrNumbers = before.lrNumbers] = before

\* C25: every stored pickup assignment keeps at least one LR number, each
\* with status Collected or Not Collected (create and update store no empty
\* lrNumbers); updateLRStatus changes only the status of an entry with the
\* given lrNumber, never the number of entries, and when no entry matches it
\* answers 404 and changes nothing.
C25_LRNumbersKept ==
    [][/\ LRNumbersWellFormed(pickupAssigns')
       /\ \A id \in PickupAssignIds, body \in LRStatusBodies :
              UpdateLRStatus(id, body) =>
                  /\ \A a \in PickupAssignById(id) :
                         \E b \in pickupAssigns' :
                             /\ b.id = id
                             /\ OnlyStatusOfChanged(a, b, Get(body, "lrNumber", ""))
                             /\ pickupAssigns' \ {b} = pickupAssigns \ {a}
                  /\ (\A a \in PickupAssignById(id) :
                          MatchingLR(a.lrNumbers, Get(body, "lrNumber", "")) = {})
                         => /\ pickupAssigns' = pickupAssigns
                            /\ aresp'.status \in {400, 404}
                            /\ (Has(body, "lrNumber") /\ Has(body, "status")
                                    /\ body.status \in LRStatuses)
                                   => aresp'.status = 404]_vars

\* updateLRStatus has marked one of two LR numbers of an assignment as
\* collected, and a request for a number the assignment lacks was answered
\* not found
C25_OneOfTwoCollected ==
    /\ aresp.op = "lrStatus" /\ aresp.status = 404 /\ aresp.lrNumber = "L3"
    /\ \E a \in pickupAssigns :
           /\ a.id = aresp.id
           /\ Len(a.lrNumbers) = 2
           /\ a.lrNumbers[1].status = "Not Collected"
           /\ a.lrNumbers[2].status = "Collected"

-----------------------------------------------------------------------------
(* Containers: the code of createContainer over days and deletions *)

\* C26: with requests served one at a time, every createContainer with valid
\* input is answered 201, and no two stored containers share a
\* containerCode, whatever was created and deleted before, also on earlier
\* days of the month.
C26_CreateSucceedsWithFreshCode ==
    /\ cresp.op = "create" => cresp.status = 201
    /\ \A c \in containers, d \in containers :
           c.containerCode = d.containerCode => c = d

-----------------------------------------------------------------------------
(* Packing lists: the generated code after a deletion *)

\* the packing list left after createPackingList for the first booking,
\* createPackingList for the second and deletePackingList of the first
SecondPackingListLeft ==
    [PackingListData(1, [BasePackingList EXCEPT !.bookingReference = 2]) EXCEPT
        !.count = 2,
        !.packingListCode = PackingListCodeOf({FirstPackingList}, today),
        !.boxNumber = PackingListCodeOf({FirstPackingList}, today)]

\* packing-list requests served one at a time, on an empty collection or
\* on the one a deletion left
InitPackingCode ==
    /\ NoContainers
    /\ bookings = TwoBookings
    /\ nextBid = MaxBookingId + 1
    /\ breq = [r \in BSlots |-> IdleBreq]
    /\ bresp = NoBresp
    /\ bundles = {}
    /\ nextBundleId = 1
    /\ preq = [r \in PSlots |-> IdlePreq]
    /\ \/ packingLists = {} /\ nextPid = 1 /\ presp = NoPresp
       \/ /\ packingLists = {SecondPackingListLeft}
          /\ nextPid = 2
          /\ presp = [op |-> "delete", id |-> 1, status |-> 200]
    /\ NoBundleRequests
    /\ NoPriceListings
    /\ NoReminders
    /\ NoStoredCustomers
    /\ NoPickupAssigns

SpecPackingCode == InitPackingCode /\ [][NextPacking]_vars

\* C27: with requests served one at a time, the packingListCode the
\* pre-save hook gives a new packing list is held by no stored packing list,
\* so createPackingList does not fail on its generated code, also after
\* earlier packing lists of the year were deleted.
C27_GeneratedCodeUnused ==
    \A r \in PSlots :
        preq[r].pc = "insert" =>
            \A p \in packingLists :
                p.packingListCode # preq[r].packingListCode

-----------------------------------------------------------------------------
(* Ready to ship: an update without readyToShipStatus *)

\* C28: an updateReadyToShipBundle whose body omits readyToShipStatus saves
\* the bundle with no container and with the readyToShipStatus it had, so a
\* stuffed or dispatched bundle is stored without a container.
C28_OmittedStatusClearsContainer ==
    [][/\ \A id \in BundleIds, body \in ReadyToShipBodies :
              (/\ ~Has(body, "readyToShipStatus")
               /\ NoBundleRequestInFlight
               /\ StartUpdateReadyToShip("u1", id, body)
               /\ ureq'["u1"].pc = "save")
              => /\ ureq'["u1"].body.container = ""
                 /\ ureq'["u1"].body.readyToShipStatus =
                        TheBundle(id).readyToShipStatus
       /\ (/\ ureq["u1"].pc = "save"
           /\ uresp'.op = "shipUpdate"
           /\ uresp'.status = 200
           /\ uresp' # uresp)
          => ureq["u1"].body \in bundles']_vars

\* an accepted update wrote nothing but the container of a bundle, which is
\* now stored as stuffed or dispatched with no container
C28_ShippedWithoutContainer ==
    /\ uresp.op = "shipUpdate" /\ uresp.status = 200
    /\ uresp.modified = {"container"}
    /\ \E b \in bundles :
           /\ b.id = uresp.id
           /\ b.readyToShipStatus \in {"stuffed", "dispatched"}
           /\ b.container = ""

-----------------------------------------------------------------------------
(* Bundles: the bundles array of a packing list *)

\* the bodies used where standalone bundle requests follow a packing list
\* created with two bundles
ArrayPackingListBodies == {Put(BasePackingList, "bundles", <<Bundle1, Bundle2>>)}
ArrayPackingListUpdates == [bundles : {<<Bundle1>>}]
ArrayCreateBundleBodies ==
    [packingListId : {1}, bundleNumber : {"1", "3"}, quantity : {4}]
ArrayUpdateBundleBodies == [bundleNumber : {"3"}] \cup [quantity : {0}]

\* packing-list and bundle requests served one at a time
NextBundleArray ==
    \/ \E body \in ArrayPackingListBodies :
           NoPackingRequestInFlight /\ NoBundleRequestInFlight
               /\ StartCreatePackingList("p1", body)
    \/ PreSavePackingList("p1")
    \/ InsertPackingList("p1")
    \/ CreatePackingListBundles("p1")
    \/ \E id \in PackingIds, body \in ArrayPackingListUpdates :
           NoPackingRequestInFlight /\ NoBundleRequestInFlight
               /\ UpdatePackingList(id, body)
    \/ \E body \in ArrayCreateBundleBodies :
           NoPackingRequestInFlight /\ NoBundleRequestInFlight
               /\ StartCreateBundle("u1", body)
    \/ InsertBundle("u1")
    \/ \E id \in BundleIds, body \in ArrayUpdateBundleBodies :
           NoPackingRequestInFlight /\ NoBundleRequestInFlight
               /\ StartUpdateBundle("u1", id, body)
    \/ SaveBundle("u1")
    \/ \E id \in BundleIds :
           NoPackingRequestInFlight /\ NoBundleRequestInFlight
               /\ DeleteBundle(id)

SpecBundleArray == InitPacking /\ [][NextBundleArray]_vars

\* the bundles array of a packing list names exactly the stored bundles that
\* reference the list
ArrayMatchesBundles(p, stored) ==
    p.bundles = {b.id : b \in BundlesOf(stored, p.id)}

-----------------------------------------------------------------------------
(* Bookings: deleteBooking and the packing lists that reference the booking *)

DeleteScenarioPackingListBodies ==
    {BasePackingList, Put(BasePackingList, "bundles", <<Bundle1>>),
     [BasePackingList EXCEPT !.bookingReference = 2]}
DeleteScenarioPackingListUpdates ==
    [bookingReference : BookingIds] \cup [packingStatus : {"in_progress"}]

\* packing-list requests and deleteBooking served one at a time
NextBookingDelete ==
    \/ \E body \in DeleteScenarioPackingListBodies :
           NoPackingRequestInFlight /\ StartCreatePackingList("p1", body)
    \/ PreSavePackingList("p1")
    \/ InsertPackingList("p1")
    \/ CreatePackingListBundles("p1")
    \/ \E id \in PackingIds, body \in DeleteScenarioPackingListUpdates :
           NoPackingRequestInFlight /\ UpdatePackingList(id, body)
    \/ \E id \in BookingIds : NoPackingRequestInFlight /\ DeleteBooking(id)

SpecBookingDelete == InitPacking /\ [][NextBookingDelete]_vars

\* C30: deleteBooking removes a stored booking, referenced by a packing
\* list or not, and leaves every packing list and bundle in place;
\* createPackingList and an updatePackingList that changes bookingReference
\* go on only while the booking they name is stored.
C30_DeleteLeavesPackingLists ==
    [][/\ \A id \in BookingIds :
              (BookingById(id) # {} /\ DeleteBooking(id))
              => /\ bresp'.status = 200
                 /\ bookings' = bookings \ BookingById(id)
                 /\ packingLists' = packingLists
                 /\ bundles' = bundles
       /\ (preq["p1"].pc = "idle" /\ preq'["p1"].pc = "presave")
          => BookingById(preq'["p1"].body.bookingReference) # {}
       /\ \A p \in packingLists, q \in packingLists' :
              (p.id = q.id /\ q.bookingReference # p.bookingReference)
              => BookingById(q.bookingReference) # {}]_vars

\* a stored packing list, with its bundle, references a booking that
\* deleteBooking has removed
C30_PackingListOfDeletedBooking ==
    /\ bresp.op = "delete" /\ bresp.status = 200
    /\ BookingById(bresp.id) = {}
    /\ \E p \in packingLists :
           /\ p.bookingReference = bresp.id
           /\ BundlesOf(bundles, p.id) # {}

====
